---- MODULE Spec2Model ----
(***************************************************************************)
(* A model of the crawl engine of yields/ant: Engine.Run, the worker loop  *)
(* Engine.run, the per-URL task Engine.process, the enqueue pipeline       *)
(* (normalize, match, dedupe, queue) and the in-memory queue.              *)
(***************************************************************************)
EXTENDS Integers, Sequences, FiniteSets, TLC

(* ----------------------------- bounds ---------------------------------- *)

MaxWorkers == 2
MaxConcurrency == 1
MaxSeeds == 2
MaxLinks == 1
MaxTasks == 4
MaxBatch == 2
MaxQueueSteps == 7
MaxAttemptsCfg == 3

(* ------------------------------ URLs ----------------------------------- *)
(* A parsed URL: scheme, host as <<name, port>>, path as the list of its   *)
(* "/"-separated segments ("/x" is <<"", "x">>, "" is <<"">>), fragment.    *)

MkURL(s, h, p, f) == [scheme |-> s, host |-> h, path |-> p, frag |-> f]

RootA == MkURL("http", <<"a", "">>, <<"", "">>, "")
AliasA == MkURL("http", <<"A", "80">>, <<"">>, "f")
PageX == MkURL("http", <<"a", "">>, <<"", "x">>, "")
RootB == MkURL("http", <<"b", "">>, <<"", "">>, "")

RawURLs == {RootA, AliasA, PageX, RootB}

(* Raw URLs Engine.Enqueue rejects: "foo" parses to a URL with no scheme,   *)
(* "://a" does not parse (missing protocol scheme).                         *)
FooURL == MkURL("", <<"", "">>, <<"foo">>, "")
Unparsable == MkURL(":", <<"", "">>, <<"">>, "")
SeedURLs == {RootA, AliasA, RootB}

ToLower(s) == CASE s = "A" -> "a" [] s = "B" -> "b" [] s = "HTTP" -> "http" [] OTHER -> s

hostname(u) ==
  LET name == ToLower(u.host[1])
      port == u.host[2]
  IN  IF (u.scheme = "http" /\ port = "80") \/ (u.scheme = "https" /\ port = "443")
      THEN <<name, "">>
      ELSE <<name, port>>

(* path.Clean on the elements of a relative path: "" and "." are dropped,  *)
(* ".." takes the element before it away unless there is none or it is     *)
(* ".." itself.                                                            *)
RECURSIVE cleanSegs(_, _)
cleanSegs(segs, out) ==
  IF segs = <<>> THEN out
  ELSE LET h == Head(segs) IN
       cleanSegs(Tail(segs),
                 IF h = "" \/ h = "." THEN out
                 ELSE IF h = ".."
                   THEN IF out # <<>> /\ out[Len(out)] # ".."
                          THEN SubSeq(out, 1, Len(out) - 1)
                          ELSE Append(out, "..")
                 ELSE Append(out, h))

(* path.Join(parts...): "" when every element is empty, otherwise the      *)
(* non-empty elements joined and cleaned, "." when nothing is left.        *)
pathJoin(parts) ==
  IF \A i \in 1..Len(parts) : parts[i] = "" THEN <<"">>
  ELSE LET c == cleanSegs(parts, <<>>) IN IF c = <<>> THEN <<".">> ELSE c

pathname(u) ==
  IF u.path = <<"">> \/ u.path = <<"", "">>
  THEN <<"", "">>
  ELSE pathJoin(u.path)

NormalizeURL(u) ==
  LET s == ToLower(u.scheme)
      v == [u EXCEPT !.scheme = s]
  IN  MkURL(s, hostname(v), pathname(v), "")

(* url.URL.String: a path that does not start with "/" gets one when the   *)
(* URL has a host.                                                         *)
String(u) ==
  LET p == IF u.path # <<"">> /\ u.path[1] # "" /\ u.host[1] # ""
           THEN <<"">> \o u.path
           ELSE u.path
  IN  <<u.scheme, u.host, p, u.frag>>

NormURLs == {NormalizeURL(u) : u \in RawURLs}
NormStrings == {String(u) : u \in NormURLs}

MapSeq(F(_), s) == [i \in 1..Len(s) |-> F(s[i])]

SeqsUpTo(S, n) == UNION {[1..k -> S] : k \in 0..n}

(* ---------------------------- matcher ---------------------------------- *)

MatchHost == <<"a", "">>

MatchHostname(u) == u.host = MatchHost

(* A matches that keeps every URL. *)
MatchesKeepsAll(urls, hasMatcher) == urls

Matches(urls, hasMatcher) ==
  IF hasMatcher THEN SelectSeq(urls, MatchHostname) ELSE urls

(* ----------------------------- state ----------------------------------- *)

VARIABLES
  cfg,            \* EngineConfig: workers, concurrency, impolite, limiter, matcher
  seeds,          \* the urls argument of Engine.Run
  pending,        \* memoryQueue.pending
  stopped,        \* memoryQueue.stopped
  wg,             \* memoryQueue.wg counter (outstanding work)
  seen,           \* deduper.m: the set of URL strings stored
  semaCur,        \* Engine.sema: slots held
  rootCancelled,  \* the context passed to Run is cancelled
  runPC,          \* position of Engine.Run
  runBatch,       \* Run's seed batch still to pass the deduper
  runNext,        \* Run's deduped seed batch
  runErr,         \* first error of a worker, kept by Run's errgroup
  runResult,      \* the error Run returned
  wpc,            \* position of each worker (Engine.run)
  wurl,           \* the URL a worker holds between Dequeue and eg.Go
  wErr,           \* first error of a task, kept by the worker's errgroup
  tasks,          \* the tasks (Engine.process invocations), by start order
  started,        \* number of tasks started so far
  visits,         \* per URL string, the number of tasks started for it
  refused,        \* the matcher has refused a URL
  qh,             \* record of the calls made on a queue used on its own
  ft,             \* one call of Fetcher.Fetch: its locals and the origin's answers
  bk,             \* the calls of Fetcher.backoff of one Fetch, and its configuration
  ch,             \* an antcache.Cache in front of an origin, and its storage
  ds,             \* an antcache.Diskstore: its directory and its index
  bf,             \* a bloom-filter deduper and the Dedupe calls running on it
  rb,             \* a robots.Cache, the host's robots.txt and the calls made on it
  nz,             \* a URL handed to normalize.URL and the results
  cq,             \* a request handed to the strategies' cache method
  sw              \* a Diskstore index handed to sweep and the outcome

vars == <<cfg, seeds, pending, stopped, wg, seen, semaCur, rootCancelled,
          runPC, runBatch, runNext, runErr, runResult, wpc, wurl, wErr, tasks,
          started, visits, refused, qh, ft, bk, ch, ds, bf, rb, nz, cq, sw>>

queueVars == <<pending, stopped, wg>>
runVars == <<runPC, runBatch, runNext, runResult>>
histVars == <<started, visits, refused>>

Workers == 1..cfg.workers
NoURL == MkURL("", <<"", "">>, <<"">>, "")

(* ----------------------------- contexts -------------------------------- *)

(* The context of errgroup.WithContext(ctx) in Run: done when the root is   *)
(* cancelled or a worker returned a non-nil error.                          *)
RunCtxDone == rootCancelled \/ runErr # "nil"

(* The context of errgroup.WithContext(ctx) in run: done when the worker's  *)
(* context is, or a task of this worker returned a non-nil error.           *)
TaskCtxDone(w) == RunCtxDone \/ wErr[w] # "nil"

(* --------------------------- memoryQueue ------------------------------- *)

(* A Broadcast that wakes nobody. *)
BroadcastNobody(wp) == wp

(* sync.Cond.Broadcast: every Dequeue caller parked in cond.Wait re-checks. *)
Broadcast(wp) == [w \in DOMAIN wp |-> IF wp[w] = "parked" THEN "dequeue" ELSE wp[w]]

(* An Enqueue that never refuses. *)
memEnqueueErrNever(urls, ctxDone) == "nil"

memEnqueueErr(urls, ctxDone) ==
  IF Len(urls) = 0 THEN "nil"
  ELSE IF stopped THEN "eof"
  ELSE IF ctxDone THEN "canceled"
  ELSE "nil"

memEnqueue(urls, ctxDone, wp) ==
  IF Len(urls) > 0 /\ memEnqueueErr(urls, ctxDone) = "nil"
  THEN /\ pending' = pending \o urls
       /\ wg' = wg + Len(urls)
       /\ wpc' = Broadcast(wp)
       /\ UNCHANGED stopped
  ELSE /\ wpc' = wp
       /\ UNCHANGED <<pending, wg, stopped>>

(* A Close that discards pending URLs without calling wg.Done for them. *)
memCloseWgNoDone == wg

(* Close: the counter after "for range mq.pending { mq.wg.Done() }" *)
memCloseWg == wg - Len(pending)

(* A Close that keeps the pending URLs. *)
memCloseKeepsPending(wp) ==
  /\ wg' = memCloseWg
  /\ stopped' = TRUE
  /\ pending' = pending
  /\ wpc' = Broadcast(wp)

memClose(wp) ==
  /\ wg' = memCloseWg
  /\ stopped' = TRUE
  /\ pending' = <<>>
  /\ wpc' = Broadcast(wp)

(* A Done that leaves the counter alone. *)
memDoneWgNoop == wg

(* Done: mq.wg.Done() *)
memDoneWg == wg - 1

(* Dequeue after taking the lock / after a wake-up: what the loop and the   *)
(* checks after it decide.                                                  *)
memDequeueKind(ctxDone) ==
  IF Len(pending) = 0 /\ ~stopped /\ ~ctxDone THEN "park"
  ELSE IF ctxDone THEN "canceled"
  ELSE IF stopped THEN "eof"
  ELSE "url"

(* ------------------------------ deduper -------------------------------- *)

(* A LoadOrStore that never finds the key. *)
LoadOrStoreNeverExists(key) == FALSE

(* sync.Map.LoadOrStore(key, nil): reports whether the key was present.     *)
LoadOrStoreExists(key) == key \in seen

(* ------------------------------ tasks ---------------------------------- *)

TaskAt(w, u, pc) ==
  [w |-> w, url |-> u, pc |-> pc, robots |-> "none", limit |-> "none",
   rwait |-> "none", fetch |-> "none", scrape |-> "none", batch |-> <<>>,
   next |-> <<>>, err |-> "nil"]

IdleTask == TaskAt(0, NoURL, "idle")
NewTask(w, u) == TaskAt(w, u, "visit")
EndedTask(w) == TaskAt(w, NoURL, "end")

SeedSeqs == SeqsUpTo(SeedURLs, MaxSeeds)

(* ----------------------------- configs --------------------------------- *)
(* Every combination of Impolite, Limiter and Matcher is run with one       *)
(* worker; several workers are run impolite with no limiter and no matcher: *)
(* no URL is filtered, and a visit that fails or is refused before the      *)
(* fetch leaves the engine in the state a failed fetch or a 404 leaves.     *)

AllConfigs ==
  [workers : 1..MaxWorkers, concurrency : 0..MaxConcurrency,
   impolite : BOOLEAN, limiter : BOOLEAN, matcher : BOOLEAN]

Configs ==
  {c \in AllConfigs : c.workers = 1 \/ (c.impolite /\ ~c.limiter /\ ~c.matcher)}

(* ------------------------------- Init ---------------------------------- *)

(* No call has been made on the queue by a caller other than the engine.    *)
QIdle ==
  [in |-> <<>>, out |-> <<>>,
   recv |-> [c \in 1..MaxWorkers |-> <<>>],
   blocked |-> [c \in 1..MaxWorkers |-> FALSE],
   op |-> "none", who |-> 0, arg |-> <<>>, err |-> "nil", n |-> 0, closes |-> 0]

(* No call of Fetcher.Fetch is followed.                                    *)
FIdle ==
  [max |-> 0, pc |-> "idle", attempt |-> 0, reqs |-> 0, hist |-> <<>>,
   open |-> 0, err |-> [kind |-> "nil", status |-> 0, temp |-> FALSE],
   page |-> "none", ret |-> "none", delays |-> <<>>, cancelled |-> FALSE,
   scraped |-> FALSE, serr |-> "none", done |-> FALSE, perr |-> "none"]

(* A Fetcher that has not backed off yet.                                   *)
BIdle ==
  [min |-> 0, max |-> 0, n |-> 0, attempt |-> 0, delays |-> <<>>,
   pc |-> "idle", cancelled |-> FALSE]

(* No cache and no disk store in use.                                       *)
CIdle == [pc |-> "idle"]

DIdle == [pc |-> "idle"]

(* No bloom-filter deduper in use.                                        *)
BFIdle == [pc |-> "idle"]

(* No robots cache in use.                                                  *)
RBIdle == [pc |-> "idle"]

(* No URL under normalization, no request under test and no sweep.          *)
NZIdle == [pc |-> "idle"]

CQIdle == [pc |-> "idle"]

SWIdle == [pc |-> "idle"]

(* NewEngine: an empty queue and deduper, no slot held, nothing running.    *)
EngineIdle ==
  /\ pending = <<>>
  /\ stopped = FALSE
  /\ wg = 0
  /\ seen = {}
  /\ semaCur = 0
  /\ rootCancelled = FALSE
  /\ runPC = "start"
  /\ runBatch = <<>>
  /\ runNext = <<>>
  /\ runErr = "nil"
  /\ runResult = "none"
  /\ wpc = [w \in 1..MaxWorkers |-> "idle"]
  /\ wurl = [w \in 1..MaxWorkers |-> NoURL]
  /\ wErr = [w \in 1..MaxWorkers |-> "nil"]
  /\ tasks = [t \in 1..MaxTasks |-> IdleTask]
  /\ started = 0
  /\ visits = [k \in NormStrings |-> 0]
  /\ refused = FALSE
  /\ qh = QIdle

Init ==
  /\ cfg \in Configs
  /\ seeds \in SeedSeqs
  /\ EngineIdle
  /\ ft = FIdle
  /\ bk = BIdle
  /\ ch = CIdle
  /\ ds = DIdle
  /\ bf = BFIdle
  /\ rb = RBIdle
  /\ nz = NZIdle
  /\ cq = CQIdle
  /\ sw = SWIdle

(* ---------------------------- Engine.Run ------------------------------- *)

(* url.Parse(rawurl) returns no error. *)
ParseOK(u) == u.scheme # ":"

(* An Enqueue that accepts every scheme. *)
ValidSchemeAny(u) == TRUE

ValidScheme(u) == ToLower(u.scheme) \in {"http", "https"}

(* The error of the first raw URL Engine.Enqueue rejects.                   *)
EnqueueReject(urls) ==
  LET bad == {i \in 1..Len(urls) : ~ParseOK(urls[i]) \/ ~ValidScheme(urls[i])} IN
    IF bad = {} THEN "nil"
    ELSE LET i == CHOOSE j \in bad : \A k \in bad : j <= k IN
           IF ParseOK(urls[i]) THEN "invalid" ELSE "parse"

(* Engine.Enqueue: parse and check every seed, then normalize and match.    *)
RunEnqueue ==
  /\ runPC = "start"
  /\ IF EnqueueReject(seeds) # "nil"
     THEN /\ runPC' = "returned"
          /\ runResult' = EnqueueReject(seeds)
          /\ UNCHANGED <<seeds, runBatch, refused>>
     ELSE /\ runPC' = "dedupe"
          /\ runBatch' = Matches(MapSeq(NormalizeURL, seeds), cfg.matcher)
          /\ refused' = (refused \/ Len(runBatch') < Len(seeds))
          /\ seeds' = <<>>
          /\ UNCHANGED runResult
  /\ UNCHANGED <<cfg, qh, ft, bk, ch, ds, bf, rb, nz, cq, sw, queueVars, seen, semaCur, rootCancelled, runNext,
                 runErr, wpc, wurl, wErr, tasks, started, visits>>

(* deduper.Dedupe on the seed batch, one LoadOrStore per step.              *)
RunDedupe ==
  /\ runPC = "dedupe"
  /\ Len(runBatch) > 0
  /\ LET u == Head(runBatch) IN
       /\ seen' = seen \cup {String(u)}
       /\ runNext' = IF LoadOrStoreExists(String(u)) THEN runNext ELSE Append(runNext, u)
       /\ runBatch' = Tail(runBatch)
  /\ UNCHANGED <<cfg, qh, ft, bk, ch, ds, bf, rb, nz, cq, sw, seeds, queueVars, semaCur, rootCancelled, runPC, runErr,
                 runResult, wpc, wurl, wErr, tasks, histVars>>

(* queue.Enqueue of the seeds with the root context, then the eg.Go loop.   *)
RunQueueEnqueue ==
  /\ runPC = "dedupe"
  /\ Len(runBatch) = 0
  /\ LET err == memEnqueueErr(runNext, rootCancelled) IN
       IF err # "nil"
       THEN /\ runPC' = "returned"
            /\ runResult' = err
            /\ UNCHANGED <<queueVars, wpc>>
       ELSE /\ memEnqueue(runNext, rootCancelled,
                          [w \in 1..MaxWorkers |-> IF w \in Workers THEN "dequeue" ELSE "idle"])
            /\ runPC' = "wait"
            /\ UNCHANGED runResult
  /\ runNext' = <<>>
  /\ UNCHANGED <<cfg, qh, ft, bk, ch, ds, bf, rb, nz, cq, sw, seeds, seen, semaCur, rootCancelled, runBatch,
                 runErr, wurl, wErr, tasks, histVars>>

(* queue.Wait: sync.WaitGroup.Wait returns when the counter is zero.        *)
RunWait ==
  /\ runPC = "wait"
  /\ wg = 0
  /\ runPC' = "close"
  /\ UNCHANGED <<cfg, qh, ft, bk, ch, ds, bf, rb, nz, cq, sw, seeds, queueVars, seen, semaCur, rootCancelled, runBatch,
                 runNext, runErr, runResult, wpc, wurl, wErr, tasks, histVars>>

RunClose ==
  /\ runPC = "close"
  /\ memClose(wpc)
  /\ runPC' = "egwait"
  /\ UNCHANGED <<cfg, qh, ft, bk, ch, ds, bf, rb, nz, cq, sw, seeds, seen, semaCur, rootCancelled, runBatch, runNext,
                 runErr, runResult, wurl, wErr, tasks, histVars>>

(* eg.Wait: every worker returned; Run returns the first worker error.      *)
RunReturn ==
  /\ runPC = "egwait"
  /\ \A w \in Workers : wpc[w] = "returned"
  /\ runPC' = "returned"
  /\ runResult' = runErr
  /\ UNCHANGED <<cfg, qh, ft, bk, ch, ds, bf, rb, nz, cq, sw, seeds, queueVars, seen, semaCur, rootCancelled, runBatch,
                 runNext, runErr, wpc, wurl, wErr, tasks, histVars>>

(* The caller cancels the context it passed to Run.                         *)
Cancel ==
  /\ ~rootCancelled
  /\ runPC # "returned"
  /\ rootCancelled' = TRUE
  /\ UNCHANGED <<cfg, qh, ft, bk, ch, ds, bf, rb, nz, cq, sw, seeds, queueVars, seen, semaCur, runPC, runBatch, runNext,
                 runErr, runResult, wpc, wurl, wErr, tasks, histVars>>

(* ------------------------ Engine.run (worker) -------------------------- *)

TaskIds == 1..MaxTasks
Running(t) == tasks[t].pc \in {"visit", "dedupe", "done", "exit"}
TasksOf(w) == {t \in TaskIds : tasks[t].w = w /\ Running(t)}

(* eg.Go(func() error { ... return eng.process(subctx, url) }) *)
StartTask(w, u) ==
  /\ tasks' = [tasks EXCEPT ![started + 1] = NewTask(w, u)]
  /\ started' = started + 1
  /\ visits' = [visits EXCEPT ![String(u)] = @ + 1]
  /\ UNCHANGED refused

(* One pass of the worker loop up to Dequeue's result.  With no semaphore   *)
(* the task is started in the same step.                                    *)
Dequeue(w) ==
  /\ w \in Workers
  /\ wpc[w] = "dequeue"
  /\ LET kind == memDequeueKind(RunCtxDone) IN
       CASE kind = "park" ->
              /\ wpc' = [wpc EXCEPT ![w] = "parked"]
              /\ UNCHANGED <<pending, wurl, tasks, histVars>>
         [] kind \in {"canceled", "eof"} ->
              /\ wpc' = [wpc EXCEPT ![w] = "egwait"]
              /\ UNCHANGED <<pending, wurl, tasks, histVars>>
         [] kind = "url" ->
              /\ started < MaxTasks
              /\ pending' = Tail(pending)
              /\ IF cfg.concurrency = 0
                 THEN /\ StartTask(w, Head(pending))
                      /\ UNCHANGED <<wpc, wurl>>
                 ELSE /\ wpc' = [wpc EXCEPT ![w] = "acquire"]
                      /\ wurl' = [wurl EXCEPT ![w] = Head(pending)]
                      /\ UNCHANGED <<tasks, histVars>>
  /\ UNCHANGED <<cfg, qh, ft, bk, ch, ds, bf, rb, nz, cq, sw, seeds, stopped, wg, seen, semaCur, rootCancelled, runVars,
                 runErr, wErr>>

(* An Acquire that takes no slot. *)
semaAcquireNoSlot == semaCur

semaAcquire == semaCur + 1

(* sema.Acquire(ctx, 1) returns nil and eg.Go starts the task.  The pinned  *)
(* semaphore (golang.org/x/sync v0.15.0) returns ctx.Err() whenever the     *)
(* context is done when it returns, even if a slot is free.                 *)
AcquireOK(w) ==
  /\ w \in Workers
  /\ wpc[w] = "acquire"
  /\ ~RunCtxDone
  /\ semaCur < cfg.concurrency
  /\ started < MaxTasks
  /\ semaCur' = semaAcquire
  /\ StartTask(w, wurl[w])
  /\ wpc' = [wpc EXCEPT ![w] = "dequeue"]
  /\ wurl' = [wurl EXCEPT ![w] = NoURL]
  /\ UNCHANGED <<cfg, qh, ft, bk, ch, ds, bf, rb, nz, cq, sw, seeds, queueVars, seen, rootCancelled, runVars, runErr, wErr>>

(* The worker function of Run returns err: the deferred queue.Close runs,   *)
(* then Run's errgroup keeps the first non-nil error.                       *)
WorkerExit(w, err) ==
  /\ memClose([wpc EXCEPT ![w] = "returned"])
  /\ runErr' = IF runErr = "nil" THEN err ELSE runErr

(* sema.Acquire fails on a done context: run returns the error at once.     *)
AcquireFail(w) ==
  /\ w \in Workers
  /\ wpc[w] = "acquire"
  /\ RunCtxDone
  /\ WorkerExit(w, "canceled")
  /\ UNCHANGED <<cfg, qh, ft, bk, ch, ds, bf, rb, nz, cq, sw, seeds, seen, semaCur, rootCancelled, runVars, wurl, wErr, tasks,
                 histVars>>

(* return eg.Wait(): every task of this worker ended.                       *)
WorkerReturn(w) ==
  /\ w \in Workers
  /\ wpc[w] = "egwait"
  /\ TasksOf(w) = {}
  /\ WorkerExit(w, wErr[w])
  /\ UNCHANGED <<cfg, qh, ft, bk, ch, ds, bf, rb, nz, cq, sw, seeds, seen, semaCur, rootCancelled, runVars, wurl, wErr, tasks,
                 histVars>>

(* ----------------------- Engine.process (task) ------------------------- *)

CtxErr(w) == IF TaskCtxDone(w) THEN "canceled" ELSE "fatal"

(* Where a visit ends: an error or a refusal at one stage, or the scraper's *)
(* result.                                                                  *)
VisitOutcomes ==
  {"fetch_err", "fetch_nil", "scrape_err", "ok"}
    \cup (IF cfg.impolite THEN {} ELSE {"disallow", "robots_err", "wait_err"})
    \cup (IF cfg.limiter THEN {"limit_err"} ELSE {})

(* robots.Allowed, unless impolite *)
RobotsAllowed(impolite, o) ==
  IF impolite THEN "skip"
  ELSE IF o = "robots_err" THEN "err"
  ELSE IF o = "disallow" THEN "false"
  ELSE "true"

(* A process that goes on after a disallow. *)
PassedRobotsIgnoresDisallow(r) == r # "err"

(* Whether process goes on after robots.Allowed answered r. *)
PassedRobots(r) == r \in {"skip", "true"}

(* Engine.limit: the limiter, when one is configured *)
LimiterLimit(hasLimiter, o) ==
  IF ~hasLimiter THEN "skip" ELSE IF o = "limit_err" THEN "err" ELSE "ok"

(* Engine.limit: robots.Wait, unless impolite *)
RobotsWait(impolite, o) ==
  IF impolite THEN "skip" ELSE IF o = "wait_err" THEN "err" ELSE "ok"

(* Fetcher.Fetch: a page, nil for a 404, or an error *)
FetcherFetch(o) ==
  IF o = "fetch_err" THEN "err" ELSE IF o = "fetch_nil" THEN "nil" ELSE "page"

(* Scraper.Scrape *)
ScraperScrape(o) == IF o = "scrape_err" THEN "err" ELSE "ok"

(* process from its start to the scraper's result: robots.Allowed,          *)
(* Engine.limit, Fetcher.Fetch (a request with a done context fails),       *)
(* Scraper.Scrape, and the normalize and match loops of enqueue.  None of   *)
(* these touches the engine's shared state, so they are one step.           *)
Visit(t, o, links) ==
  /\ t \in TaskIds
  /\ tasks[t].pc = "visit"
  /\ o \in VisitOutcomes
  /\ o # "ok" => links = <<>>
  /\ LET T == tasks[t]
         r == RobotsAllowed(cfg.impolite, o)
         l == IF PassedRobots(r) THEN LimiterLimit(cfg.limiter, o) ELSE "none"
         q == IF l \in {"skip", "ok"} THEN RobotsWait(cfg.impolite, o) ELSE "none"
         f == IF q \in {"skip", "ok"} THEN FetcherFetch(o) ELSE "none"
         s == IF f = "page" THEN ScraperScrape(o) ELSE "none"
         b == Matches(MapSeq(NormalizeURL, links), cfg.matcher)
     IN  /\ (f # "none" /\ TaskCtxDone(T.w)) => f = "err"
         /\ refused' = (refused \/ Len(b) < Len(links))
         /\ tasks' = [tasks EXCEPT ![t] =
              [T EXCEPT !.robots = r, !.limit = l, !.rwait = q, !.fetch = f, !.scrape = s,
                        !.batch = b,
                        !.err = IF "err" \in {r, l, q, f} THEN CtxErr(T.w)
                                ELSE IF s = "err" THEN "fatal" ELSE "nil",
                        !.pc = IF s = "ok" THEN "dedupe" ELSE "done"]]
  /\ UNCHANGED <<cfg, qh, ft, bk, ch, ds, bf, rb, nz, cq, sw, seeds, queueVars, seen, semaCur, rootCancelled, runVars,
                 runErr, wpc, wurl, wErr, started, visits>>

(* deduper.Dedupe on the task's batch, one LoadOrStore per step.            *)
TaskDedupe(t) ==
  /\ t \in TaskIds
  /\ tasks[t].pc = "dedupe"
  /\ Len(tasks[t].batch) > 0
  /\ LET T == tasks[t]
         u == Head(T.batch)
     IN  /\ seen' = seen \cup {String(u)}
         /\ tasks' = [tasks EXCEPT ![t] =
              [T EXCEPT !.batch = Tail(T.batch),
                        !.next = IF LoadOrStoreExists(String(u)) THEN T.next
                                 ELSE Append(T.next, u)]]
  /\ UNCHANGED <<cfg, qh, ft, bk, ch, ds, bf, rb, nz, cq, sw, seeds, queueVars, semaCur, rootCancelled, runVars, runErr,
                 wpc, wurl, wErr, histVars>>

(* queue.Enqueue of the deduped links with the task's context.              *)
TaskEnqueue(t) ==
  /\ t \in TaskIds
  /\ tasks[t].pc = "dedupe"
  /\ Len(tasks[t].batch) = 0
  /\ LET T == tasks[t] IN
       /\ memEnqueue(T.next, TaskCtxDone(T.w), wpc)
       /\ tasks' = [tasks EXCEPT ![t] =
            [T EXCEPT !.err = memEnqueueErr(T.next, TaskCtxDone(T.w)), !.pc = "done"]]
  /\ UNCHANGED <<cfg, qh, ft, bk, ch, ds, bf, rb, nz, cq, sw, seeds, seen, semaCur, rootCancelled, runVars, runErr, wurl, wErr,
                 histVars>>

(* defer eng.queue.Done(ctx, url)                                           *)
TaskDone(t) ==
  /\ t \in TaskIds
  /\ tasks[t].pc = "done"
  /\ wg' = memDoneWg
  /\ tasks' = [tasks EXCEPT ![t] = [TaskAt(@.w, @.url, "exit") EXCEPT !.err = tasks[t].err]]
  /\ UNCHANGED <<cfg, qh, ft, bk, ch, ds, bf, rb, nz, cq, sw, seeds, pending, stopped, seen, semaCur, rootCancelled, runVars,
                 runErr, wpc, wurl, wErr, histVars>>

semaRelease == semaCur - 1

(* The task's goroutine ends: defer eng.sema.Release(1), and the worker's   *)
(* errgroup keeps the first non-nil error.                                  *)
TaskExit(t) ==
  /\ t \in TaskIds
  /\ tasks[t].pc = "exit"
  /\ semaCur' = IF cfg.concurrency > 0 THEN semaRelease ELSE semaCur
  /\ wErr' = [wErr EXCEPT ![tasks[t].w] = IF @ = "nil" THEN tasks[t].err ELSE @]
  /\ tasks' = [tasks EXCEPT ![t] = EndedTask(tasks[t].w)]
  /\ UNCHANGED <<cfg, qh, ft, bk, ch, ds, bf, rb, nz, cq, sw, seeds, queueVars, seen, rootCancelled, runVars, runErr, wpc, wurl,
                 histVars>>

(* ------------------------------ Next ----------------------------------- *)

(* A scraper result that repeats one URL. *)
RepeatedLinks == <<PageX, PageX>>

(* What a scraper may return: any list of at most MaxLinks URLs, or the     *)
(* repeated one.                                                            *)
LinkSeqs == SeqsUpTo(RawURLs, MaxLinks) \cup {RepeatedLinks}

VisitChoices ==
  {"robots_err", "disallow", "limit_err", "wait_err", "fetch_err", "fetch_nil",
   "scrape_err", "ok"}

Next ==
  \/ RunEnqueue
  \/ RunDedupe
  \/ RunQueueEnqueue
  \/ RunWait
  \/ RunClose
  \/ RunReturn
  \/ Cancel
  \/ \E w \in 1..MaxWorkers : Dequeue(w)
  \/ \E w \in 1..MaxWorkers : AcquireOK(w)
  \/ \E w \in 1..MaxWorkers : AcquireFail(w)
  \/ \E w \in 1..MaxWorkers : WorkerReturn(w)
  \/ \E t \in TaskIds, o \in VisitChoices, links \in LinkSeqs : Visit(t, o, links)
  \/ \E t \in TaskIds : TaskDedupe(t)
  \/ \E t \in TaskIds : TaskEnqueue(t)
  \/ \E t \in TaskIds : TaskDone(t)
  \/ \E t \in TaskIds : TaskExit(t)

Spec == Init /\ [][Next]_vars

(* Runs in which the caller never cancels and no collaborator returns an    *)
(* error: a robots disallow and a 404 (nil page) are not errors.  Without   *)
(* cancellation sema.Acquire cannot fail.                                   *)
VisitOKChoices == {"disallow", "fetch_nil", "ok"}

NextOK ==
  \/ RunEnqueue
  \/ RunDedupe
  \/ RunQueueEnqueue
  \/ RunWait
  \/ RunClose
  \/ RunReturn
  \/ \E w \in 1..MaxWorkers : Dequeue(w)
  \/ \E w \in 1..MaxWorkers : AcquireOK(w)
  \/ \E w \in 1..MaxWorkers : WorkerReturn(w)
  \/ \E t \in TaskIds, o \in VisitOKChoices, links \in LinkSeqs : Visit(t, o, links)
  \/ \E t \in TaskIds : TaskDedupe(t)
  \/ \E t \in TaskIds : TaskEnqueue(t)
  \/ \E t \in TaskIds : TaskDone(t)
  \/ \E t \in TaskIds : TaskExit(t)

(* Fair scheduling: a goroutine that can take a step eventually takes one.  *)
LiveSpec == Init /\ [][NextOK]_vars /\ WF_vars(NextOK)

(* ------------------- Engine.Enqueue with any raw URL ------------------- *)
(* Run on seeds that may hold raw URLs Enqueue rejects, one worker, a       *)
(* concurrency limit of one.                                                *)

AnySeedSeqs == SeqsUpTo({RootA, RootB, FooURL, Unparsable}, MaxSeeds)

EnqInit ==
  /\ cfg = [workers |-> 1, concurrency |-> 1, impolite |-> TRUE,
            limiter |-> FALSE, matcher |-> FALSE]
  /\ seeds \in AnySeedSeqs
  /\ EngineIdle
  /\ ft = FIdle
  /\ bk = BIdle
  /\ ch = CIdle
  /\ ds = DIdle
  /\ bf = BFIdle
  /\ rb = RBIdle
  /\ nz = NZIdle
  /\ cq = CQIdle
  /\ sw = SWIdle

EnqSpec == EnqInit /\ [][Next]_vars

(* ---------------------- the queue used on its own ---------------------- *)
(* Callers other than the engine (as in anttest.TestQueue): consumers       *)
(* 1..MaxWorkers call Dequeue and Done, a producer calls Enqueue, anyone    *)
(* calls Close, and the one context every call is given may be cancelled.   *)
(* wpc[c] is the consumer's position ("idle": not in a call, "parked": in   *)
(* cond.Wait, "dequeue": woken by a Broadcast), wurl[c] the URL it holds     *)
(* until Done.  qh records the calls: URLs appended (in), URLs popped       *)
(* (out), URLs each consumer received (recv), whether a consumer's last     *)
(* finished Dequeue had parked (blocked), and the last call made (op, who,  *)
(* arg, err), n counting the calls and closes the calls of Close.           *)

Consumers == 1..MaxWorkers

QueueURLs == {RootA, PageX, RootB}

SeqElems(q) == {q[i] : i \in 1..Len(q)}

(* The batches a producer enqueues: URLs not enqueued before, no repeats.   *)
FreshBatches ==
  {b \in SeqsUpTo(QueueURLs, MaxBatch) :
     /\ \A i, j \in 1..Len(b) : i # j => b[i] # b[j]
     /\ SeqElems(b) \cap SeqElems(qh.in) = {}}

QLog(op, who, arg, err) ==
  [qh EXCEPT !.op = op, !.who = who, !.arg = arg, !.err = err, !.n = @ + 1]

engineVars ==
  <<cfg, seeds, seen, semaCur, runPC, runBatch, runNext, runErr, runResult,
    wErr, tasks, started, visits, refused, ft, bk, ch, ds, bf, rb, nz, cq, sw>>

QInit ==
  /\ cfg = [workers |-> MaxWorkers, concurrency |-> 0, impolite |-> TRUE,
            limiter |-> FALSE, matcher |-> FALSE]
  /\ seeds = <<>>
  /\ EngineIdle
  /\ ft = FIdle
  /\ bk = BIdle
  /\ ch = CIdle
  /\ ds = DIdle
  /\ bf = BFIdle
  /\ rb = RBIdle
  /\ nz = NZIdle
  /\ cq = CQIdle
  /\ sw = SWIdle

(* Enqueue(ctx, urls) *)
QEnqueue(urls) ==
  /\ qh.n < MaxQueueSteps
  /\ memEnqueue(urls, rootCancelled, wpc)
  /\ LET err == memEnqueueErr(urls, rootCancelled) IN
       qh' = [QLog("enqueue", 0, urls, err) EXCEPT
                !.in = IF err = "nil" THEN @ \o urls ELSE @]
  /\ UNCHANGED <<engineVars, rootCancelled, wurl>>

(* A Dequeue that returns the URL appended last. *)
memDequeueURLLast == pending[Len(pending)]

(* Dequeue: url := mq.pending[0] *)
memDequeueURL == Head(pending)

(* A Dequeue that leaves the URL it returns in pending. *)
memDequeueRestKeepsAll == pending

(* Dequeue: mq.pending = mq.pending[1:] *)
memDequeueRest == Tail(pending)

(* Dequeue(ctx) by consumer c: the call, or the re-check after a wake-up.   *)
(* The lock is held from the entry (or the wake-up) to cond.Wait or to the  *)
(* return, so each is one step.                                             *)
QDequeue(c) ==
  /\ qh.n < MaxQueueSteps
  /\ wpc[c] \in {"idle", "dequeue"}
  /\ wurl[c] = NoURL
  /\ LET k == memDequeueKind(rootCancelled) IN
       CASE k = "park" ->
              /\ wpc' = [wpc EXCEPT ![c] = "parked"]
              /\ qh' = QLog("park", c, <<>>, "nil")
              /\ UNCHANGED <<pending, wurl>>
         [] k = "url" ->
              /\ pending' = memDequeueRest
              /\ wurl' = [wurl EXCEPT ![c] = memDequeueURL]
              /\ wpc' = [wpc EXCEPT ![c] = "idle"]
              /\ qh' = [QLog("dequeue", c, <<>>, "nil") EXCEPT
                          !.out = Append(@, memDequeueURL),
                          !.recv[c] = Append(@, memDequeueURL),
                          !.blocked[c] = (wpc[c] = "dequeue")]
         [] OTHER ->
              /\ wpc' = [wpc EXCEPT ![c] = "idle"]
              /\ qh' = [QLog("dequeue", c, <<>>, k) EXCEPT
                          !.blocked[c] = (wpc[c] = "dequeue")]
              /\ UNCHANGED <<pending, wurl>>
  /\ UNCHANGED <<engineVars, rootCancelled, stopped, wg>>

(* Done(url) by the consumer that holds a dequeued URL.                     *)
QDone(c) ==
  /\ qh.n < MaxQueueSteps
  /\ wurl[c] # NoURL
  /\ wg' = memDoneWg
  /\ wurl' = [wurl EXCEPT ![c] = NoURL]
  /\ qh' = QLog("done", c, <<>>, "nil")
  /\ UNCHANGED <<engineVars, rootCancelled, pending, stopped, wpc>>

(* Close() *)
QClose ==
  /\ qh.n < MaxQueueSteps
  /\ memClose(wpc)
  /\ qh' = [QLog("close", 0, <<>>, "nil") EXCEPT !.closes = @ + 1]
  /\ UNCHANGED <<engineVars, rootCancelled, wurl>>

(* The context given to the calls is cancelled.                             *)
QCancel ==
  /\ qh.n < MaxQueueSteps
  /\ ~rootCancelled
  /\ rootCancelled' = TRUE
  /\ qh' = QLog("cancel", 0, <<>>, "nil")
  /\ UNCHANGED <<engineVars, queueVars, wpc, wurl>>

QNext ==
  \/ \E urls \in FreshBatches : QEnqueue(urls)
  \/ \E c \in Consumers : QDequeue(c)
  \/ \E c \in Consumers : QDone(c)
  \/ QClose
  \/ QCancel

QSpec == QInit /\ [][QNext]_vars

(* ---------------------------- Fetcher.Fetch ----------------------------- *)
(* One call of Fetcher.Fetch, followed by what Engine.scrape and            *)
(* Engine.process do with its result.  ft holds the configured MaxAttempts  *)
(* (max), the position (pc), the loop counter (attempt), the requests the   *)
(* origin received (reqs), its answers (hist), the bodies of failed         *)
(* responses not yet closed (open), the error of the last attempt (err),    *)
(* the page and error returned (page, ret), the backoffs slept (delays, in  *)
(* milliseconds), whether the context is cancelled, and for the engine:     *)
(* whether the scraper was called, whether Done was called, and the error   *)
(* of process (perr).                                                       *)

DefaultMaxAttempts == 5
MinBackoffMs == 50
MaxBackoffMs == 1000

(* What one client.Do gives: a response with a status, or a transport       *)
(* error whose Temporary() reports temp.                                    *)
StatusResp(st) == [kind |-> "status", status |-> st, temp |-> FALSE]
TransportErr(temp) == [kind |-> "transport", status |-> 0, temp |-> temp]

Statuses == {200, 304, 400, 404, 429, 500, 503, 504}

Responses ==
  {StatusResp(st) : st \in Statuses} \cup {TransportErr(t) : t \in BOOLEAN}

NilErr == [kind |-> "nil", status |-> 0, temp |-> FALSE]

(* A fetcher that allows one attempt more. *)
maxAttemptsOneMore(m) == (IF m > 0 THEN m ELSE DefaultMaxAttempts) + 1

(* f.maxAttempts() *)
maxAttempts(m) == IF m > 0 THEN m ELSE DefaultMaxAttempts

(* FetchError.Temporary *)
FetchErrorTemporary(st) == st = 503 \/ st = 504 \/ st = 429

(* The error f.fetch returns for an answer: nil below 400, a *FetchError    *)
(* from 400 on, and for a transport error the error of client.Do wrapped    *)
(* by fmt.Errorf("... %w", err).                                            *)
fetchErr(r) ==
  IF r.kind = "transport" THEN [kind |-> "wrapped", status |-> 0, temp |-> r.temp]
  ELSE IF r.status >= 400 THEN [kind |-> "fetcherror", status |-> r.status, temp |-> FALSE]
  ELSE NilErr

(* An isTemporary that holds for every FetchError. *)
isTemporaryAnyStatus(err) == err.kind = "fetcherror"

(* isTemporary: the type assertion err.(interface{ Temporary() bool }) on   *)
(* the error itself; the wrapper made by fmt.Errorf has no such method.     *)
isTemporary(err) == err.kind = "fetcherror" /\ FetchErrorTemporary(err.status)

(* backoff: time.Duration(attempt*attempt) * min, capped at max.            *)
(* time.Duration is a signed two's-complement count whose products wrap    *)
(* silently; the model counts milliseconds in DurBits bits.                 *)
DurBits == 16

MaxDuration == 2 ^ (DurBits - 1) - 1

(* The value a signed integer of DurBits bits holds for x.                  *)
wrapDuration(x) ==
  LET m == x % (2 ^ DurBits) IN
    IF m >= 2 ^ (DurBits - 1) THEN m - 2 ^ DurBits ELSE m

(* Fetcher.minBackoff and Fetcher.maxBackoff: the configured value when it  *)
(* is positive, the default otherwise.                                      *)
minBackoff(c) == IF c > 0 THEN c ELSE MinBackoffMs

maxBackoff(c) == IF c > 0 THEN c ELSE MaxBackoffMs

(* time.Duration(a) * b. *)
durMul(a, b) == wrapDuration(a * b)

(* Fetcher.backoff: dur = attempt*attempt*min, capped by max.               *)
backoffDur(min, max, attempt) ==
  LET dur == durMul(attempt * attempt, min) IN
    IF dur > max THEN max ELSE dur

FStart(m) == [FIdle EXCEPT !.max = m, !.pc = "loop"]

FInit ==
  /\ cfg = [workers |-> 1, concurrency |-> 0, impolite |-> TRUE,
            limiter |-> FALSE, matcher |-> FALSE]
  /\ seeds = <<>>
  /\ EngineIdle
  /\ ft \in {FStart(m) : m \in 0..MaxAttemptsCfg}
  /\ bk = BIdle
  /\ ch = CIdle
  /\ ds = DIdle
  /\ bf = BFIdle
  /\ rb = RBIdle
  /\ nz = NZIdle
  /\ cq = CQIdle
  /\ sw = SWIdle

fetcherFrame == <<cfg, seeds, queueVars, seen, semaCur, rootCancelled, runVars,
                  runErr, wpc, wurl, wErr, tasks, histVars, qh, bk, ch, ds, bf, rb, nz, cq, sw>>

(* The head of the loop: attempt++, and the return once attempt exceeds     *)
(* maxAttempts.                                                             *)
FLoop ==
  /\ ft.pc = "loop"
  /\ IF ft.attempt + 1 > maxAttempts(ft.max)
     THEN ft' = [ft EXCEPT !.attempt = @ + 1, !.pc = "returned",
                           !.page = "nil", !.ret = "max"]
     ELSE ft' = [ft EXCEPT !.attempt = @ + 1, !.pc = "fetch"]
  /\ UNCHANGED fetcherFrame

(* f.fetch: one client.Do.  With a cancelled context the client returns a   *)
(* transport error that is not temporary and the origin gets no request.    *)
FFetch(r) ==
  /\ ft.pc = "fetch"
  /\ ft.cancelled => r = TransportErr(FALSE)
  /\ LET e == fetchErr(r) IN
       ft' = [ft EXCEPT
                !.reqs = IF ft.cancelled THEN @ ELSE @ + 1,
                !.hist = IF ft.cancelled THEN @ ELSE Append(@, r),
                !.err = e,
                !.open = IF r.kind = "status" /\ e # NilErr THEN @ + 1 ELSE @,
                !.pc = IF e = NilErr THEN "returned" ELSE "discard",
                !.page = IF e = NilErr THEN "page" ELSE @,
                !.ret = IF e = NilErr THEN "nil" ELSE @]
  /\ UNCHANGED fetcherFrame

(* A discard that leaves the body open. *)
discardNothing(open) == open

(* f.discard(resp): drain and close the body of a non-nil response.         *)
discard(open) == 0

(* After a failed attempt: discard, then back off, or return for a 404 or   *)
(* any other error.                                                         *)
FDiscard ==
  /\ ft.pc = "discard"
  /\ ft' = [ft EXCEPT
              !.open = discard(@),
              !.pc = IF isTemporary(ft.err) THEN "backoff" ELSE "returned",
              !.page = IF isTemporary(ft.err) THEN @ ELSE "nil",
              !.ret = IF isTemporary(ft.err) THEN @
                      ELSE IF ft.err.kind = "fetcherror" /\ ft.err.status = 404
                        THEN "nil"
                      ELSE ft.err.kind]
  /\ UNCHANGED fetcherFrame

(* f.backoff: the timer fires.                                              *)
FBackoff ==
  /\ ft.pc = "backoff"
  /\ ft' = [ft EXCEPT !.delays = Append(@, backoffDur(minBackoff(0), maxBackoff(0), ft.attempt)), !.pc = "loop"]
  /\ UNCHANGED fetcherFrame

(* f.backoff: the context is done before the timer fires.                   *)
FBackoffCancelled ==
  /\ ft.pc = "backoff"
  /\ ft.cancelled
  /\ ft' = [ft EXCEPT !.pc = "returned", !.page = "nil", !.ret = "ctx"]
  /\ UNCHANGED fetcherFrame

(* The caller's context is cancelled during the call.                       *)
FCancel ==
  /\ ft.pc \in {"loop", "fetch", "discard", "backoff"}
  /\ ~ft.cancelled
  /\ ft' = [ft EXCEPT !.cancelled = TRUE]
  /\ UNCHANGED fetcherFrame

(* What Scraper.Scrape can return: nil, an error whose Temporary() is true, *)
(* or any other error.                                                      *)
ScrapeResults == {"ok", "temporary", "permanent"}

(* Engine.scrape and the rest of Engine.process on Fetch's result: an error *)
(* is returned wrapped, a nil page ends the visit with nil, a page is       *)
(* scraped once and any error of the scraper is returned wrapped; the       *)
(* deferred queue.Done runs in every case.                                  *)
FProcess(s) ==
  /\ ft.pc = "returned"
  /\ LET called == ft.ret = "nil" /\ ft.page = "page" IN
       /\ ~called => s = "ok"
       /\ ft' = [ft EXCEPT
                   !.pc = "processed",
                   !.scraped = called,
                   !.serr = IF called THEN s ELSE "none",
                   !.perr = IF ft.ret # "nil" THEN "fetch"
                            ELSE IF called /\ s # "ok" THEN "scrape"
                            ELSE "nil",
                   !.done = TRUE]
  /\ UNCHANGED fetcherFrame

FNext ==
  \/ FLoop
  \/ \E r \in Responses : FFetch(r)
  \/ FDiscard
  \/ FBackoff
  \/ FBackoffCancelled
  \/ FCancel
  \/ \E s \in ScrapeResults : FProcess(s)

FSpec == FInit /\ [][FNext]_vars

(* ------------------------- Fetcher.backoff alone ------------------------ *)

(* A Fetch whose every attempt fails with a retryable error calls backoff   *)
(* after attempt 1, 2, ... maxAttempts; bk keeps the configuration and the  *)
(* time each call slept.                                                    *)

(* Configured Fetcher.MinBackoff and Fetcher.MaxBackoff, 0 for unset.       *)
BackoffMins == {0, 1, 50, 10000}

BackoffMaxs == {0, 1000, 20000, MaxDuration}

BInit ==
  /\ cfg = [workers |-> 1, concurrency |-> 0, impolite |-> TRUE,
            limiter |-> FALSE, matcher |-> FALSE]
  /\ seeds = <<>>
  /\ EngineIdle
  /\ ft = FIdle
  /\ bk \in {[BIdle EXCEPT !.min = a, !.max = b, !.n = maxAttempts(m), !.pc = "retrying"] :
               a \in BackoffMins, b \in BackoffMaxs, m \in {0, 2}}
  /\ ch = CIdle
  /\ ds = DIdle
  /\ bf = BFIdle
  /\ rb = RBIdle
  /\ nz = NZIdle
  /\ cq = CQIdle
  /\ sw = SWIdle

backoffFrame == <<cfg, seeds, queueVars, seen, semaCur, rootCancelled, runVars,
                  runErr, wpc, wurl, wErr, tasks, histVars, qh, ft, ch, ds, bf, rb, nz, cq, sw>>

(* backoff(ctx, attempt) with min < max: the timer of dur fires.            *)
BSleep ==
  /\ bk.pc = "retrying"
  /\ bk.attempt < bk.n
  /\ minBackoff(bk.min) < maxBackoff(bk.max)
  /\ bk' = [bk EXCEPT
              !.attempt = @ + 1,
              !.delays = Append(@, backoffDur(minBackoff(bk.min),
                                              maxBackoff(bk.max),
                                              bk.attempt + 1))]
  /\ UNCHANGED backoffFrame

(* backoff(ctx, attempt) with min >= max returns an error without sleeping. *)
BMisconfigured ==
  /\ bk.pc = "retrying"
  /\ bk.attempt < bk.n
  /\ minBackoff(bk.min) >= maxBackoff(bk.max)
  /\ bk' = [bk EXCEPT !.attempt = @ + 1, !.pc = "error"]
  /\ UNCHANGED backoffFrame

(* The context is cancelled.                                                *)
BCancel ==
  /\ bk.pc = "retrying"
  /\ ~bk.cancelled
  /\ bk' = [bk EXCEPT !.cancelled = TRUE]
  /\ UNCHANGED backoffFrame

(* backoff(ctx, attempt) with a done context: ctx.Err() without the sleep.  *)
BCancelled ==
  /\ bk.pc = "retrying"
  /\ bk.attempt < bk.n
  /\ bk.cancelled
  /\ minBackoff(bk.min) < maxBackoff(bk.max)
  /\ bk' = [bk EXCEPT !.attempt = @ + 1, !.pc = "ctx"]
  /\ UNCHANGED backoffFrame

BNext ==
  \/ BSleep
  \/ BMisconfigured
  \/ BCancel
  \/ BCancelled

BSpec == BInit /\ [][BNext]_vars

(* ------------------------------- antcache ------------------------------- *)

(* A Cache with the RFC 7234 strategy in front of a client, and a caller    *)
(* that issues requests for one URL one after the other, reads the bodies   *)
(* and closes them.                                                         *)

MaxDo == 2

MaxTime == 1

MaxCloses == 2

(* The max-age the origin sends, in clock ticks.                            *)
OriginMaxAge == 1

OriginBody == <<"a">>

(* Cache-Control of a request, as the set of its directives.                *)
RequestDirectives ==
  {{}, {"no-store"}, {"max-age=0"}, {"max-age=0", "stale-if-error"}}

CacheRequests ==
  {[method |-> "GET", cc |-> d] : d \in RequestDirectives}
    \cup {[method |-> "POST", cc |-> {}]}

(* utils.go keyof: the method and the URL.                                  *)
keyof(req) == <<req.method, "u">>

CacheKeys == {keyof(r) : r \in CacheRequests}

(* What the client returns for one request: a response or an error.         *)
Answer(st, ma, ns, ex, body, clen) ==
  [kind |-> "resp", status |-> st, maxage |-> ma, nostore |-> ns,
   extra |-> ex, body |-> body, clen |-> clen]

ClientError ==
  [kind |-> "error", status |-> 0, maxage |-> 0, nostore |-> FALSE,
   extra |-> {}, body |-> <<>>, clen |-> 0]

(* 200 with max-age and a Content-Length, 200 chunked, 200 with no-store,   *)
(* 304 with a hop-by-hop header and a header of its own, 500, an error.     *)
OriginAnswers ==
  {Answer(200, OriginMaxAge, FALSE, {}, OriginBody, Len(OriginBody)),
   Answer(200, OriginMaxAge, FALSE, {}, OriginBody, -1),
   Answer(200, 0, TRUE, {}, OriginBody, Len(OriginBody)),
   Answer(304, OriginMaxAge, FALSE, {"X-Verified", "Keep-Alive"}, <<>>, 0),
   Answer(500, 0, FALSE, {}, <<>>, 0),
   ClientError}

(* rfc7234.cache with every request cacheable. *)
rfcCacheAll(req) == TRUE

(* rfc7234.cache *)
rfcCache(req) == req.method \in {"GET", "HEAD"} /\ "no-store" \notin req.cc

StorableStatuses == {200, 203, 204, 206, 300, 301, 404, 405, 410, 414, 501}

(* rfc7234.store: the origin always sends Date; an explicit lifetime is a   *)
(* max-age above zero.                                                      *)
rfcStore(req, r) ==
  /\ req.method \in {"GET", "HEAD"}
  /\ r.status \in StorableStatuses
  /\ "no-store" \notin req.cc
  /\ ~r.nostore
  /\ r.maxage > 0

(* rfc7234.fresh for requests and responses without Vary, no-cache,         *)
(* only-if-cached, min-fresh or max-stale.                                  *)
rfcFresh(req, r, now) ==
  LET lifetime == IF "max-age=0" \in req.cc THEN 0 ELSE r.maxage IN
    IF lifetime > now - r.date THEN "fresh" ELSE "stale"

HopByHop ==
  {"Keep-Alive", "Proxy-Authenticate", "Proxy-Authorization", "Te",
   "Trailers", "Transfer-Encoding", "Upgrade"}

(* A merge that copies every header. *)
mergeAll(a, b) ==
  [a EXCEPT !.date = b.date, !.maxage = b.maxage, !.nostore = b.nostore,
            !.extra = @ \cup b.extra]

(* utils.go merge: every header of b but the hop-by-hop ones replaces a's.  *)
merge(a, b) ==
  [a EXCEPT !.date = b.date, !.maxage = b.maxage, !.nostore = b.nostore,
            !.extra = @ \cup (b.extra \ HopByHop)]

(* A response in the caller's hands: status and headers, the reader rc it   *)
(* came with, the cachereader around it when wrapped, and what the caller   *)
(* has done with it.                                                        *)
NewResponse(st, date, ma, ns, ex, clen, body, src) ==
  [status |-> st, date |-> date, maxage |-> ma, nostore |-> ns, extra |-> ex,
   clen |-> clen, rc |-> body, rcClosed |-> FALSE,
   wrapped |-> FALSE, buf |-> <<>>, once |-> FALSE,
   got |-> <<>>, readErr |-> FALSE, closes |-> 0,
   stores |-> 0, storeRes |-> "none", closeErr |-> FALSE, src |-> src]

(* The response of the client for an answer received at the time now.       *)
FromOrigin(a, now) ==
  NewResponse(a.status, now, a.maxage, a.nostore, a.extra, a.clen, a.body,
              "origin")

(* What the storage holds for a key.                                        *)
NoValue == [kind |-> "none"]

Garbage == [kind |-> "garbage"]

DumpError == [kind |-> "dumperror"]

(* httputil.DumpResponse of the response with the buffered bytes as body:   *)
(* it fails when a Content-Length is set and the body has another length.   *)
dump(r) ==
  IF r.clen >= 0 /\ Len(r.buf) # r.clen
  THEN DumpError
  ELSE [kind |-> "bytes", status |-> r.status, date |-> r.date,
        maxage |-> r.maxage, nostore |-> r.nostore, extra |-> r.extra,
        clen |-> r.clen, body |-> r.buf]

(* http.ReadResponse of stored bytes.                                       *)
parse(v) ==
  NewResponse(v.status, v.date, v.maxage, v.nostore, v.extra, v.clen, v.body,
              "stored")

(* A store that leaves the body as it is. *)
cacheStoreNoWrap(r) == r

(* Cache.store: the body becomes a cachereader around it.                   *)
cacheStore(r) == [r EXCEPT !.wrapped = TRUE, !.buf = <<>>, !.once = FALSE]

(* Cache.discard: the body is drained and closed.                           *)
cacheDiscard(r) == [r EXCEPT !.rc = <<>>, !.rcClosed = TRUE]

fromCache(r) == [r EXCEPT !.extra = @ \cup {"X-From-Cache"}]

NoResponse == [status |-> 0]

(* The outcome of a call: what load did, the requests the client got, and   *)
(* the response or the error returned.                                      *)
Outcome(load, n, r, err) == [load |-> load, origin |-> n, resp |-> r, err |-> err]

(* Do's miss path: the client's answer, wrapped when storable.              *)
doMiss(req, load, n, a, now) ==
  IF a.kind = "error"
  THEN Outcome(load, n + 1, NoResponse, "client")
  ELSE Outcome(load, n + 1,
               IF rfcStore(req, a) THEN cacheStore(FromOrigin(a, now))
               ELSE FromOrigin(a, now),
               "nil")

(* A request whose stale-if-error is ignored. *)
staleIfErrorNever(req) == FALSE

(* Cache.verify, reqd.has("stale-if-error")                                 *)
staleIfError(req) == "stale-if-error" \in req.cc

(* Cache.verify on the stored response r with the client's answer a1; a nil *)
(* response sends Do to its miss path, where the client answers a2.         *)
verify(req, r, a1, a2, now) ==
  IF a1.kind = "error"
    THEN Outcome("stale", 1, NoResponse, "validate")
  ELSE IF a1.status >= 500 /\ a1.status < 600
    THEN IF staleIfError(req)
         THEN Outcome("stale", 1, fromCache(r), "nil")
         ELSE Outcome("stale", 1, fromCache(FromOrigin(a1, now)), "nil")
  ELSE IF a1.status = 304
    THEN Outcome("stale", 1,
                 fromCache(cacheStore(merge(cacheDiscard(r), FromOrigin(a1, now)))),
                 "nil")
  ELSE IF rfcStore(req, a1)
    THEN Outcome("stale", 1, fromCache(cacheStore(FromOrigin(a1, now))), "nil")
  ELSE doMiss(req, "stale", 1, a2, now)

(* Cache.load and the rest of Cache.Do for a cacheable request, v being     *)
(* what storage.Load returned.                                              *)
doCacheable(req, v, a1, a2, now) ==
  IF v.kind = "error"
    THEN Outcome("error", 0, NoResponse, "load")
  ELSE IF v.kind = "none"
    THEN doMiss(req, "miss", 0, a1, now)
  ELSE IF v.kind = "garbage"
    THEN Outcome("corrupt", 0, NoResponse, "read")
  ELSE IF rfcFresh(req, parse(v), now) = "fresh"
    THEN Outcome("fresh", 0, fromCache(parse(v)), "nil")
  ELSE verify(req, parse(v), a1, a2, now)

(* Cache.Do *)
cacheDo(req, v, a1, a2, now) ==
  IF ~rfcCache(req)
  THEN IF a1.kind = "error"
       THEN Outcome("skipped", 1, NoResponse, "client")
       ELSE Outcome("skipped", 1, FromOrigin(a1, now), "nil")
  ELSE doCacheable(req, v, a1, a2, now)

LoadError == [kind |-> "error"]

(* What storage.Load can return: the value held, an error, or bytes that    *)
(* are no response.                                                         *)
LoadResults(held) == {held, LoadError, Garbage}

CStart ==
  [pc |-> "open", now |-> 0,
   storage |-> [k \in CacheKeys |-> NoValue],
   holder |-> [k \in CacheKeys |-> 0],
   log |-> <<>>, resps |-> <<>>, origin |-> 0, stores |-> 0]

CInit ==
  /\ cfg = [workers |-> 1, concurrency |-> 0, impolite |-> TRUE,
            limiter |-> FALSE, matcher |-> FALSE]
  /\ seeds = <<>>
  /\ EngineIdle
  /\ ft = FIdle
  /\ bk = BIdle
  /\ ch = CStart
  /\ ds = DIdle
  /\ bf = BFIdle
  /\ rb = RBIdle
  /\ nz = NZIdle
  /\ cq = CQIdle
  /\ sw = SWIdle

cacheFrame == <<cfg, seeds, queueVars, seen, semaCur, rootCancelled, runVars,
                runErr, wpc, wurl, wErr, tasks, histVars, qh, ft, bk, ds, bf, rb, nz, cq, sw>>

(* One call of Cache.Do; the caller keeps the response it got.              *)
CDo(req, v, a1, a2) ==
  /\ ch.pc = "open"
  /\ Len(ch.log) < MaxDo
  /\ LET o == cacheDo(req, v, a1, a2, ch.now)
         held == IF rfcCache(req) THEN ch.storage[keyof(req)] ELSE NoValue
     IN
       /\ ~rfcCache(req) => v = NoValue
       /\ o.origin < 1 => a1 = ClientError
       /\ o.origin < 2 => a2 = ClientError
       /\ ch' = [ch EXCEPT
                   !.origin = @ + o.origin,
                   !.resps = Append(@, o.resp),
                   !.log = Append(@, [req |-> req, now |-> ch.now,
                                      load |-> o.load, origin |-> o.origin,
                                      err |-> o.err, held |-> held,
                                      stores |-> ch.stores,
                                      prior |-> ch.resps,
                                      a1 |-> a1, a2 |-> a2,
                                      holder |-> IF rfcCache(req)
                                                 THEN ch.holder[keyof(req)]
                                                 ELSE 0])]
  /\ UNCHANGED cacheFrame

Held(i) == ch.resps[i].status # 0

(* One Read on the body of response i that returns a byte, or the error of  *)
(* a body that is already closed.  A cachereader also buffers the byte.     *)
CRead(i) ==
  /\ ch.pc = "open"
  /\ i \in 1..Len(ch.resps)
  /\ Held(i)
  /\ LET r == ch.resps[i] IN
       /\ r.closes = 0 /\ ~r.readErr
       /\ r.rcClosed \/ r.rc # <<>>
       /\ ch' = [ch EXCEPT !.resps[i] =
                   IF r.rcClosed THEN [r EXCEPT !.readErr = TRUE]
                   ELSE [r EXCEPT !.rc = Tail(@),
                                  !.got = Append(@, Head(r.rc)),
                                  !.buf = IF r.wrapped THEN Append(@, Head(r.rc))
                                          ELSE @]]
  /\ UNCHANGED cacheFrame

(* A Close that runs the store function every time. *)
onceDoAlways(r) == r.wrapped

(* cachereader.Close, cr.once.Do: the store function runs on the first      *)
(* Close of a cachereader only.                                             *)
onceDo(r) == r.wrapped /\ ~r.once

(* One Close on the body of response i.  The first Close of a cachereader   *)
(* dumps the response and hands the bytes to storage.Store, which fails     *)
(* when fails is true.                                                      *)
CClose(i, fails) ==
  /\ ch.pc = "open"
  /\ i \in 1..Len(ch.resps)
  /\ Held(i)
  /\ LET r == ch.resps[i]
         k == keyof(ch.log[i].req)
         first == onceDo(r)
         bytes == dump(r)
         calls == first /\ bytes # DumpError
     IN
       /\ r.closes < MaxCloses
       /\ ~calls => ~fails
       /\ ch' = [ch EXCEPT
                   !.resps[i] = [r EXCEPT
                                   !.rcClosed = TRUE,
                                   !.once = IF r.wrapped THEN TRUE ELSE @,
                                   !.closes = @ + 1,
                                   !.stores = IF calls THEN @ + 1 ELSE @,
                                   !.storeRes = IF ~first THEN @
                                                ELSE IF bytes = DumpError THEN "dump"
                                                ELSE IF fails THEN "failed"
                                                ELSE "ok",
                                   !.closeErr = first /\ (bytes = DumpError \/ fails)],
                   !.stores = IF calls THEN @ + 1 ELSE @,
                   !.storage = IF calls /\ ~fails
                               THEN [@ EXCEPT ![k] = bytes] ELSE @,
                   !.holder = IF calls /\ ~fails
                              THEN [@ EXCEPT ![k] = i] ELSE @]
  /\ UNCHANGED cacheFrame

(* Time passes.                                                             *)
CTick ==
  /\ ch.pc = "open"
  /\ ch.now < MaxTime
  /\ ch' = [ch EXCEPT !.now = @ + 1]
  /\ UNCHANGED cacheFrame

CNext ==
  \/ \E req \in CacheRequests, a1 \in OriginAnswers, a2 \in OriginAnswers :
       \E v \in LoadResults(IF rfcCache(req) THEN ch.storage[keyof(req)]
                            ELSE NoValue) :
         CDo(req, v, a1, a2)
  \/ \E i \in 1..MaxDo : CRead(i)
  \/ \E i \in 1..MaxDo, fails \in BOOLEAN : CClose(i, fails)
  \/ CTick

CSpec == CInit /\ [][CNext]_vars

(* --------------------------- antcache.Diskstore ------------------------- *)

(* A disk store with the sweeper off and compression off: two callers of    *)
(* Store, one caller of Load and the warmup goroutine.  A file is an inode; *)
(* the directory maps the key's filename and the temporary names to inodes. *)

MaxLoads == 2

Writers == {1, 2}

DiskKey == 1

DiskKeys == {DiskKey}

(* The inode of a file left by an earlier run, and its bytes.               *)
OldInode == 0

OldValue == <<"o", "o">>

(* The bytes each caller stores.                                            *)
DiskValue(p) == IF p = 1 THEN <<"a", "a">> ELSE <<"b", "b">>

NoInode == -1

NotReady == [present |-> FALSE, size |-> 0]

(* Open: the directory is empty or holds a file of an earlier run; the      *)
(* index is empty and the warmup goroutine has been started; with           *)
(* SweepEvery(0) there is no sweeper.                                       *)
DStart(old) ==
  [pc |-> "open",
   inode |-> [n \in {OldInode} \cup Writers |->
                IF n = OldInode /\ old THEN [data |-> OldValue, synced |-> TRUE]
                ELSE [data |-> <<>>, synced |-> FALSE]],
   keyfile |-> [k \in DiskKeys |-> IF old THEN OldInode ELSE NoInode],
   tmp |-> [p \in Writers |-> FALSE],
   ready |-> [k \in DiskKeys |-> NotReady],
   st |-> [p \in Writers |-> [pc |-> "idle", key |-> DiskKey, renamed |-> FALSE]],
   ld |-> [pc |-> "idle", key |-> DiskKey, ino |-> NoInode,
           res |-> [kind |-> "none", data |-> <<>>], n |-> 0],
   wm |-> [pc |-> "scan", files |-> {}],
   sp |-> [pc |-> "off", remove |-> {}, doneAt |-> {}, deleted |-> NoInode,
           lostDone |-> FALSE]]

DInit ==
  /\ cfg = [workers |-> 1, concurrency |-> 0, impolite |-> TRUE,
            limiter |-> FALSE, matcher |-> FALSE]
  /\ seeds = <<>>
  /\ EngineIdle
  /\ ft = FIdle
  /\ bk = BIdle
  /\ ch = CIdle
  /\ ds \in {DStart(old) : old \in BOOLEAN}
  /\ bf = BFIdle
  /\ rb = RBIdle
  /\ nz = NZIdle
  /\ cq = CQIdle
  /\ sw = SWIdle

diskFrame == <<cfg, seeds, queueVars, seen, semaCur, rootCancelled, runVars,
               runErr, wpc, wurl, wErr, tasks, histVars, qh, ft, bk, ch, bf, rb, nz, cq, sw>>

(* readymu is read-locked while a Load is between its lookup and its return. *)
ReadLocked == ds.ld.pc \in {"locked", "opened"}

(* Store: os.CreateTemp makes an empty file under a temporary name.         *)
SCreate(p) ==
  /\ ds.st[p].pc = "idle"
  /\ ds' = [ds EXCEPT !.st[p].pc = "created",
                      !.tmp[p] = TRUE,
                      !.inode[p] = [data |-> <<>>, synced |-> FALSE]]
  /\ UNCHANGED diskFrame

(* Store: os.CreateTemp fails.                                              *)
SCreateFail(p) ==
  /\ ds.st[p].pc = "idle"
  /\ ds' = [ds EXCEPT !.st[p].pc = "failed"]
  /\ UNCHANGED diskFrame

(* Store: f.Write(v); the bytes reach the file one part after the other.    *)
SWrite(p) ==
  /\ ds.st[p].pc \in {"created", "writing"}
  /\ LET done == Len(ds.inode[p].data) + 1 = Len(DiskValue(p)) IN
       ds' = [ds EXCEPT
                !.inode[p].data = Append(@, DiskValue(p)[Len(@) + 1]),
                !.st[p].pc = IF done THEN "written" ELSE "writing"]
  /\ UNCHANGED diskFrame

(* Store: f.Sync().                                                         *)
SSync(p) ==
  /\ ds.st[p].pc = "written"
  /\ ds' = [ds EXCEPT !.inode[p].synced = TRUE, !.st[p].pc = "synced"]
  /\ UNCHANGED diskFrame

(* A Store that may rename as soon as the temporary file exists. *)
renameReadyAnyTime(pc) == pc \in {"created", "writing", "written", "synced"}

(* Store calls add, and with it os.Rename, after Write and Sync returned    *)
(* nil.                                                                     *)
renameReady(pc) == pc = "synced"

(* add: f.Stat, f.Close and os.Rename of the temporary name to the key's    *)
(* filename, which replaces the file of that name in one step.              *)
SRename(p) ==
  /\ renameReady(ds.st[p].pc)
  /\ ds' = [ds EXCEPT !.keyfile[ds.st[p].key] = p,
                      !.tmp[p] = FALSE,
                      !.st[p].pc = "renamed",
                      !.st[p].renamed = TRUE]
  /\ UNCHANGED diskFrame

(* add: d.dir.Sync().                                                       *)
SDirSync(p) ==
  /\ ds.st[p].pc = "renamed"
  /\ ds' = [ds EXCEPT !.st[p].pc = "dirsynced"]
  /\ UNCHANGED diskFrame

(* add: the index entry is written under the write lock; Store returns nil. *)
SIndex(p) ==
  /\ ds.st[p].pc = "dirsynced"
  /\ ~ReadLocked
  /\ ds' = [ds EXCEPT
              !.ready[ds.st[p].key] = [present |-> TRUE,
                                       size |-> Len(ds.inode[p].data)],
              !.st[p].pc = "done"]
  /\ UNCHANGED diskFrame

(* Store: Write, Sync, Stat, Close or Rename fails; cleanup closes the file *)
(* and removes the temporary name, and Store returns the error.             *)
SFail(p) ==
  /\ ds.st[p].pc \in {"created", "writing", "written", "synced"}
  /\ ds' = [ds EXCEPT !.tmp[p] = FALSE, !.st[p].pc = "failed"]
  /\ UNCHANGED diskFrame

(* add: d.dir.Sync() fails after the rename; cleanup finds no temporary     *)
(* name and Store returns the error without an index entry.                 *)
SDirSyncFail(p) ==
  /\ ds.st[p].pc = "renamed"
  /\ ds' = [ds EXCEPT !.st[p].pc = "failed"]
  /\ UNCHANGED diskFrame

(* The complete values whose rename to the key's filename has happened.     *)
Renamed(k) ==
  {DiskValue(p) : p \in {q \in Writers : ds.st[q].key = k /\ ds.st[q].renamed}}

(* Load: under the read lock, a key that is not in the index is not found.  *)
LLookup(k) ==
  /\ ds.ld.pc \in {"idle", "returned"}
  /\ ds.ld.n < MaxLoads
  /\ ds' = [ds EXCEPT
              !.ld = IF ds.ready[k].present
                     THEN [@ EXCEPT !.pc = "locked", !.key = k, !.n = @ + 1,
                                    !.res = [kind |-> "none", data |-> <<>>]]
                     ELSE [@ EXCEPT !.pc = "returned", !.key = k, !.n = @ + 1,
                                    !.res = [kind |-> "notfound", data |-> <<>>]]]
  /\ UNCHANGED diskFrame

(* Load: os.ReadFile opens the key's filename.                              *)
LOpen ==
  /\ ds.ld.pc = "locked"
  /\ ds' = [ds EXCEPT
              !.ld = IF ds.keyfile[ds.ld.key] = NoInode
                     THEN [@ EXCEPT !.pc = "returned",
                                    !.res = [kind |-> "error", data |-> <<>>]]
                     ELSE [@ EXCEPT !.pc = "opened",
                                    !.ino = ds.keyfile[ds.ld.key]]]
  /\ UNCHANGED diskFrame

(* Load: os.ReadFile reads the open file to its end; the lock is released.  *)
LRead ==
  /\ ds.ld.pc = "opened"
  /\ ds' = [ds EXCEPT
              !.ld.pc = "returned",
              !.ld.res = [kind |-> "bytes", data |-> ds.inode[ds.ld.ino].data]]
  /\ UNCHANGED diskFrame

(* The names in the directory: the decimal keys and the temporary names.    *)
DirNames ==
  {[kind |-> "key", id |-> k] : k \in {x \in DiskKeys : ds.keyfile[x] # NoInode}}
    \cup {[kind |-> "tmp", id |-> p] : p \in {q \in Writers : ds.tmp[q]}}

(* warmup, strconv.ParseUint(name, 10, 64): a temporary name, digits and    *)
(* ".tmp", is no number.                                                    *)
parseUintOK(name) == name.kind = "key"

(* warmup: the names in the directory that are keys, with their stat.       *)
WScan ==
  /\ ds.wm.pc = "scan"
  /\ ds' = [ds EXCEPT
              !.wm = [pc |-> "index",
                      files |-> {[key |-> n.id,
                                  size |-> Len(ds.inode[ds.keyfile[n.id]].data)] :
                                   n \in {x \in DirNames : parseUintOK(x)}}]]
  /\ UNCHANGED diskFrame

(* warmup: under the write lock, every file found whose key is not in the   *)
(* index is added.                                                          *)
WIndex ==
  /\ ds.wm.pc = "index"
  /\ ~ReadLocked
  /\ ds' = [ds EXCEPT
              !.ready = [k \in DiskKeys |->
                           IF ~ds.ready[k].present
                              /\ \E f \in ds.wm.files : f.key = k
                           THEN [present |-> TRUE,
                                 size |-> (CHOOSE f \in ds.wm.files : f.key = k).size]
                           ELSE ds.ready[k]],
              !.wm.pc = "done"]
  /\ UNCHANGED diskFrame

DNext ==
  \/ \E p \in Writers : SCreate(p)
  \/ \E p \in Writers : SCreateFail(p)
  \/ \E p \in Writers : SWrite(p)
  \/ \E p \in Writers : SSync(p)
  \/ \E p \in Writers : SRename(p)
  \/ \E p \in Writers : SDirSync(p)
  \/ \E p \in Writers : SIndex(p)
  \/ \E p \in Writers : SFail(p)
  \/ \E p \in Writers : SDirSyncFail(p)
  \/ \E k \in DiskKeys : LLookup(k)
  \/ LOpen
  \/ LRead
  \/ WScan
  \/ WIndex

DSpec == DInit /\ [][DNext]_vars

(* =============================== claims ================================ *)

RunningTasks == {t \in TaskIds : Running(t)}

(* URLs dequeued and not yet acknowledged by Done: held by a worker between *)
(* Dequeue and eg.Go, or owned by a task that has not run its deferred Done. *)
InFlight ==
  Cardinality({w \in 1..MaxWorkers : wurl[w] # NoURL})
    + Cardinality({t \in TaskIds : tasks[t].pc \in {"visit", "dedupe", "done"}})

AllWorkersReturned == \A w \in Workers : wpc[w] = "returned"

(* C1: during one Run with the exact deduper, at most one task (one call of *)
(* process, hence at most one Fetch and one Scrape) is started for each     *)
(* normalized URL string, whatever the workers, the interleaving and the    *)
(* repetitions in seeds and scraper results.                                *)
C1_AtMostOnceVisit == \A k \in NormStrings : visits[k] <= 1

(* Two running tasks returned the same new URL; one of them has won the     *)
(* LoadOrStore, the other still has to ask.                                 *)
C1_Witness ==
  \E t1, t2 \in TaskIds :
    /\ t1 # t2
    /\ tasks[t1].pc = "dedupe" /\ tasks[t2].pc = "dedupe"
    /\ tasks[t1].batch # <<>>
    /\ tasks[t2].next = tasks[t1].batch

(* C7: the queue's outstanding-work counter equals the number of pending    *)
(* URLs plus the number of URLs dequeued and not yet Done, is never         *)
(* negative, and is 0 once Wait has returned.                               *)
C7_QueueAccounting ==
  /\ wg = Len(pending) + InFlight
  /\ wg >= 0
  /\ runPC = "close" => wg = 0

(* The queue was closed while URLs were in flight and others were dequeued. *)
C7_Witness == stopped /\ InFlight >= 1 /\ started >= 2

(* C8: with a matcher configured, every URL that is queued, dequeued or     *)
(* owned by a task satisfies Match on its normalized form.                  *)
C8_MatcherHonored ==
  cfg.matcher =>
    /\ \A i \in 1..Len(pending) : MatchHostname(pending[i])
    /\ \A i \in 1..Len(runNext) : MatchHostname(runNext[i])
    /\ \A w \in Workers : wurl[w] # NoURL => MatchHostname(wurl[w])
    /\ \A t \in RunningTasks :
         /\ tasks[t].pc # "exit" => MatchHostname(tasks[t].url)
         /\ \A i \in 1..Len(tasks[t].next) : MatchHostname(tasks[t].next[i])

(* The matcher refused a URL, and a page was fetched and scraped.           *)
C8_Witness ==
  /\ cfg.matcher
  /\ refused
  /\ \E t \in TaskIds : tasks[t].scrape = "ok"

(* C9: polite, a task fetches only after robots.Allowed returned true, and   *)
(* a disallowed URL is dropped with no limiter wait, no robots wait, no     *)
(* fetch, no scrape and no error; impolite, robots.Allowed and robots.Wait  *)
(* are skipped and a configured limiter is still applied before the fetch.  *)
C9_RobotsHonored ==
  \A t \in TaskIds :
    LET T == tasks[t] IN
      /\ (~cfg.impolite /\ T.fetch # "none") => (T.robots = "true" /\ T.rwait = "ok")
      /\ T.robots = "false" =>
           /\ T.limit = "none" /\ T.rwait = "none"
           /\ T.fetch = "none" /\ T.scrape = "none"
           /\ T.err = "nil"
      /\ cfg.impolite => (T.robots \in {"none", "skip"} /\ T.rwait \in {"none", "skip"})
      /\ (cfg.limiter /\ T.fetch # "none") => T.limit = "ok"

(* An impolite engine with a limiter fetched a page.                        *)
C9_Witness ==
  /\ cfg.impolite
  /\ cfg.limiter
  /\ \E t \in TaskIds : tasks[t].fetch = "page" /\ tasks[t].limit = "ok"

(* C10: with Concurrency = n > 0 the slots held equal the running tasks and *)
(* never exceed n.                                                          *)
C10_ConcurrencyBound ==
  cfg.concurrency > 0 =>
    /\ semaCur = Cardinality(RunningTasks)
    /\ semaCur <= cfg.concurrency
    /\ semaCur >= 0

(* Every slot is held and a worker waits for one with a dequeued URL.       *)
C10_Witness ==
  /\ cfg.concurrency > 0
  /\ semaCur = cfg.concurrency
  /\ \E w \in Workers : wpc[w] = "acquire"

(* C5: every URL a worker dequeued gets queue.Done on every exit path of    *)
(* the worker loop and of process: a worker that has left its loop holds no *)
(* dequeued URL whose Done was never called, and once the workers and their *)
(* tasks have ended no URL is in flight.                                    *)
C5_DoneOnEveryExit ==
  /\ \A w \in Workers : wpc[w] = "returned" => wurl[w] = NoURL
  /\ (AllWorkersReturned /\ RunningTasks = {}) => InFlight = 0

(* C4: once the root context is cancelled Run cannot be stuck (it has       *)
(* returned or a step of the program is possible), and a Run that was       *)
(* cancelled while admitted URLs were still unprocessed returns an error.   *)
C4_CancelledRunReturns ==
  /\ rootCancelled => (runPC = "returned" \/ ENABLED Next)
  /\ (rootCancelled /\ runPC = "returned" /\ \E k \in seen : visits[k] = 0)
       => runResult # "nil"

(* C6: once the processing of one URL has returned a fatal error, no task   *)
(* of any worker fetches and scrapes a page successfully.                   *)
C6_FatalErrorStopsAllWorkers ==
  [][(\E w \in Workers : wErr[w] = "fatal")
       => ~(\E t \in TaskIds : tasks[t].pc = "visit" /\ tasks'[t].pc = "dedupe")]_vars

(* C2: when Run returns nil the queue is closed, its counter is 0, and      *)
(* every URL admitted by normalize/match/dedupe was processed to the end.   *)
C2_NilMeansAllProcessed ==
  (runPC = "returned" /\ runResult = "nil") =>
    /\ stopped
    /\ wg = 0
    /\ \A k \in seen : visits[k] >= 1
    /\ \A t \in TaskIds : tasks[t].pc \notin {"visit", "dedupe", "done"}

(* C3: with a finite URL graph, no collaborator error and no cancellation,  *)
(* under fair scheduling Run eventually returns nil for every Workers and   *)
(* Concurrency setting, with the queue closed, its counter at 0 and every   *)
(* worker out of its dequeue loop.                                          *)
C3_RunEventuallyReturnsNil ==
  <>(/\ runPC = "returned"
     /\ runResult = "nil"
     /\ stopped
     /\ wg = 0
     /\ AllWorkersReturned)

(* Run returned nil with two workers after three pages were processed under *)
(* a concurrency limit.                                                     *)
C3_Witness ==
  /\ runPC = "returned" /\ runResult = "nil"
  /\ cfg.workers = 2 /\ cfg.concurrency = 1
  /\ started = 3

(* ------------------------- claims on the queue -------------------------- *)

(* The step is the return of a Dequeue call to consumer c.                  *)
DequeueReturns(c) == qh'.n # qh.n /\ qh'.op = "dequeue" /\ qh'.who = c

(* How many times consumers received u.                                     *)
Received(u) ==
  Cardinality({ci \in Consumers \X (1..MaxQueueSteps) :
                 /\ ci[2] <= Len(qh.recv[ci[1]])
                 /\ qh.recv[ci[1]][ci[2]] = u})

Occurrences(q, u) == Cardinality({i \in 1..Len(q) : q[i] = u})

(* C11: a Dequeue blocked on an open, empty queue is unblocked by the       *)
(* cancellation of its context alone: once the context is cancelled the     *)
(* parked caller can take its next step (the return of the context error)   *)
(* without any Enqueue or Close.                                            *)
C11_CancelUnblocksDequeue ==
  \A c \in Consumers :
    (wpc[c] = "parked" /\ rootCancelled /\ qh.n < MaxQueueSteps)
      => ENABLED QDequeue(c)

(* C12 as stated: after Close nobody stays blocked, and every caller that   *)
(* was blocked, whatever its context, and every later caller with a live    *)
(* context, gets io.EOF and no URL.                                         *)
C12_CloseGivesEOF_AsStated ==
  [][/\ stopped' => \A c \in Consumers : wpc'[c] # "parked"
     /\ \A c \in Consumers :
          (DequeueReturns(c) /\ stopped /\ (wpc[c] = "dequeue" \/ ~rootCancelled))
            => (qh'.err = "eof" /\ wurl'[c] = NoURL)]_vars

(* C12 amended: after Close nobody stays blocked, and every caller whose    *)
(* context is live, blocked at the Close or calling later, gets io.EOF and  *)
(* no URL.                                                                  *)
C12_CloseGivesEOF ==
  [][/\ stopped' => \A c \in Consumers : wpc'[c] # "parked"
     /\ \A c \in Consumers :
          (DequeueReturns(c) /\ stopped /\ ~rootCancelled)
            => (qh'.err = "eof" /\ wurl'[c] = NoURL /\ UNCHANGED pending)]_vars

(* Every consumer was blocked on the empty queue, Close woke them and each  *)
(* returned io.EOF.                                                         *)
C12_Witness ==
  /\ stopped /\ ~rootCancelled
  /\ qh.in = <<>>
  /\ qh.op = "dequeue" /\ qh.err = "eof"
  /\ \A c \in Consumers : qh.blocked[c] /\ wpc[c] = "idle"

(* C13: Close sets stopped, empties pending, lowers the counter by the      *)
(* number of discarded URLs, leaving it equal to the URLs in flight, and    *)
(* returns nil; on a closed queue it changes nothing.                       *)
C13_CloseEffect ==
  [][(qh'.n # qh.n /\ qh'.op = "close") =>
       /\ stopped'
       /\ pending' = <<>>
       /\ wg' = wg - Len(pending)
       /\ wg' = InFlight'
       /\ qh'.err = "nil"
       /\ stopped => UNCHANGED <<pending, stopped, wg>>]_vars

(* A second Close, after a first one that discarded a pending URL while     *)
(* another was in flight.                                                   *)
C13_Witness ==
  /\ qh.op = "close" /\ qh.closes >= 2
  /\ wg >= 1
  /\ Len(qh.in) > Len(qh.out)

(* C14: every enqueued URL is received by at most one Dequeue call, only    *)
(* enqueued URLs are received, and while the queue is open every enqueued   *)
(* URL is either still pending or was received exactly once.                *)
C14_ExactlyOnceDelivery ==
  /\ \A c \in Consumers : SeqElems(qh.recv[c]) \subseteq SeqElems(qh.in)
  /\ \A u \in SeqElems(qh.in) :
       /\ Received(u) + Occurrences(pending, u) <= 1
       /\ ~stopped => Received(u) + Occurrences(pending, u) = 1

(* Every consumer blocked on the empty queue, one Enqueue of as many URLs   *)
(* as consumers followed, and every consumer received one URL.              *)
C14_Witness ==
  /\ qh.n = 2 * MaxWorkers + 1
  /\ Len(qh.in) = MaxWorkers
  /\ \A c \in Consumers : qh.blocked[c] /\ Len(qh.recv[c]) = 1

(* C15: the URLs come out in the order they were appended: the sequence of  *)
(* dequeued URLs is a prefix of the sequence of appended URLs, and while    *)
(* the queue is open the rest of that sequence is exactly pending.          *)
C15_FIFO ==
  /\ Len(qh.out) <= Len(qh.in)
  /\ qh.out = SubSeq(qh.in, 1, Len(qh.out))
  /\ ~stopped => qh.in = qh.out \o pending

(* More URLs than one batch holds were dequeued: they came from at least   *)
(* two Enqueue calls.                                                       *)
C15_Witness == Len(qh.out) = MaxBatch + 1

(* C16: Enqueue of a non-empty batch returns io.EOF on a closed queue and   *)
(* the context error on an open queue with a cancelled context, and leaves  *)
(* pending and the counter unchanged in both cases.                         *)
C16_EnqueueRefused ==
  [][(qh'.n # qh.n /\ qh'.op = "enqueue" /\ Len(qh'.arg) > 0) =>
       /\ stopped => qh'.err = "eof"
       /\ (~stopped /\ rootCancelled) => qh'.err = "canceled"
       /\ (stopped \/ rootCancelled) => UNCHANGED <<pending, wg>>
       /\ qh'.err # "nil" => UNCHANGED <<pending, wg>>]_vars

(* An Enqueue was refused for a cancelled context with URLs pending.        *)
C16_Witness ==
  /\ qh.op = "enqueue" /\ qh.err = "canceled"
  /\ Len(qh.arg) > 0
  /\ pending # <<>>

(* ------------------------ claims on Engine.Enqueue ---------------------- *)

(* C17: Engine.Enqueue on a batch holding a raw URL that does not parse or  *)
(* whose scheme is not http/https returns an error, and then and ever after *)
(* no URL of the batch, the valid ones included, is in the deduper or the   *)
(* queue; a batch of valid URLs is not rejected.                            *)
C17_InvalidBatchHasNoEffect ==
  [][/\ (runPC = "start" /\ runPC' # "start") =>
          IF \E i \in 1..Len(seeds) :
               ~ParseOK(seeds[i]) \/ seeds[i].scheme \notin {"http", "https"}
          THEN runPC' = "returned" /\ runResult' \in {"invalid", "parse"}
          ELSE runPC' = "dedupe"
     /\ runResult' \in {"invalid", "parse"} =>
          /\ seen' = {}
          /\ pending' = <<>>
          /\ wg' = 0
          /\ started' = 0]_vars

(* A batch with a valid URL before an invalid one was rejected.             *)
C17_Witness ==
  /\ runPC = "returned" /\ runResult = "invalid"
  /\ Len(seeds) = 2
  /\ ParseOK(seeds[1]) /\ ValidScheme(seeds[1])

(* ------------------------- claims on the fetcher ------------------------ *)

(* The origin's answers so far, except the last, are retryable statuses.    *)
RetriedSoFar ==
  \A i \in 1..(Len(ft.hist) - 1) :
    ft.hist[i].kind = "status" /\ ft.hist[i].status \in {429, 503, 504}

LastAnswer == ft.hist[Len(ft.hist)]

FetchReturned == ft.pc \in {"returned", "processed"}

(* C18: when the origin has answered k retryable statuses and then a status *)
(* below 400, Fetch has returned a page and a nil error after k+1 requests  *)
(* and k backoffs, with k below the maximum, and the body of every failed   *)
(* response was drained and closed before the next attempt began.           *)
C18_RetryThenPage ==
  /\ ft.pc \in {"loop", "fetch", "backoff"} => ft.open = 0
  /\ (/\ ft.hist # <<>>
      /\ RetriedSoFar
      /\ LastAnswer.kind = "status" /\ LastAnswer.status < 400) =>
       /\ FetchReturned
       /\ ft.page = "page" /\ ft.ret = "nil"
       /\ ft.reqs = Len(ft.hist)
       /\ Len(ft.delays) = Len(ft.hist) - 1
       /\ Len(ft.hist) - 1 < (IF ft.max > 0 THEN ft.max ELSE 5)
       /\ ft.open = 0

(* 503, 503, 200 with the default maximum: a page after three requests.     *)
C18_Witness ==
  /\ ft.max = 0
  /\ ft.hist = <<StatusResp(503), StatusResp(503), StatusResp(200)>>
  /\ ft.page = "page" /\ ft.ret = "nil" /\ ft.reqs = 3

C20_DeadLinkAndFatalStatus ==
  (/\ ft.hist # <<>>
   /\ LastAnswer.kind = "status"
   /\ LastAnswer.status >= 400
   /\ LastAnswer.status \notin {429, 503, 504}) =>
    /\ ft.pc \in {"discard", "returned", "processed"}
    /\ ft.reqs = Len(ft.hist)
    /\ FetchReturned => ft.page = "nil"
    /\ (FetchReturned /\ LastAnswer.status = 404) => ft.ret = "nil"
    /\ (FetchReturned /\ LastAnswer.status # 404) =>
         (ft.ret = "fetcherror" /\ ft.err.status = LastAnswer.status)
    /\ ft.pc = "processed" =>
         /\ ~ft.scraped
         /\ ft.done
         /\ ft.perr = (IF LastAnswer.status = 404 THEN "nil" ELSE "fetch")

(* A 404 on the first request, and the visit ended.                         *)
C20_Witness ==
  /\ ft.hist = <<StatusResp(404)>>
  /\ ft.reqs = 1
  /\ ft.pc = "processed" /\ ft.perr = "nil" /\ ft.done

(* C21: when the client's Do returns a transport error whose Temporary() is *)
(* true, the context is live and attempts are left, Fetch does not return   *)
(* after that request: it backs off and retries.                            *)
C21_TemporaryTransportErrorRetried ==
  (/\ ft.hist # <<>>
   /\ LastAnswer = TransportErr(TRUE)
   /\ ~ft.cancelled
   /\ Len(ft.hist) < (IF ft.max > 0 THEN ft.max ELSE 5)) =>
    ~FetchReturned

(* A temporary transport error on the first request of a Fetch with the     *)
(* default maximum, returned to the caller as the wrapped error.            *)
C21_Witness ==
  /\ ft.max = 0
  /\ ft.hist = <<TransportErr(TRUE)>>
  /\ ft.reqs = 1
  /\ ~ft.cancelled
  /\ ft.pc = "returned" /\ ft.ret = "wrapped" /\ ft.page = "nil"

(* C22: when Scraper.Scrape returned an error whose Temporary() is true,    *)
(* the visit of that URL does not end with the scraper's error.             *)
C22_TemporaryScrapeErrorRetried ==
  (ft.scraped /\ ft.serr = "temporary") => ft.perr # "scrape"

(* A page fetched on the first request, scraped once with a temporary       *)
(* error, and the visit ended with that error.                              *)
C22_Witness ==
  /\ ft.hist = <<StatusResp(200)>>
  /\ ft.pc = "processed"
  /\ ft.scraped /\ ft.serr = "temporary"
  /\ ft.perr = "scrape" /\ ft.done

(* --------------------------- claims on backoff -------------------------- *)

Smaller(a, b) == IF a < b THEN a ELSE b

(* C23: the backoff slept after failed attempt i is the smaller of          *)
(* max_backoff and i*i*min_backoff: never below min_backoff, never above    *)
(* max_backoff, and not above the backoff slept after attempt i+1, for      *)
(* every i up to max_attempts.                                              *)
C23_BackoffBounds ==
  \A i \in 1..Len(bk.delays) :
    /\ bk.delays[i] = Smaller(maxBackoff(bk.max), i * i * minBackoff(bk.min))
    /\ bk.delays[i] >= minBackoff(bk.min)
    /\ bk.delays[i] <= maxBackoff(bk.max)
    /\ i < Len(bk.delays) => bk.delays[i] <= bk.delays[i + 1]

(* The defaults: 50, 200, 450, 800 and then the ceiling.                    *)
C23_Witness ==
  /\ bk.min = 0 /\ bk.max = 0
  /\ bk.delays = <<50, 200, 450, 800, 1000>>

(* --------------------------- claims on antcache ------------------------- *)

DoCalls == 1..Len(ch.log)

(* C24: for a request that is not cacheable (a method other than GET and    *)
(* HEAD, or Cache-Control: no-store) Cache.Do does not call storage.Load,   *)
(* sends exactly one request to the client and returns the client's         *)
(* response or error; the response is not a stored one and storage.Store is *)
(* never called for it, however often its body is closed.                   *)
C24_NotCacheablePassesThrough ==
  \A i \in DoCalls :
    (ch.log[i].req.method \notin {"GET", "HEAD"} \/ "no-store" \in ch.log[i].req.cc) =>
      /\ ch.log[i].load = "skipped"
      /\ ch.log[i].origin = 1
      /\ ch.log[i].err \in {"nil", "client"}
      /\ Held(i) <=> ch.log[i].err = "nil"
      /\ Held(i) =>
           /\ ch.resps[i].src = "origin"
           /\ "X-From-Cache" \notin ch.resps[i].extra
           /\ ~ch.resps[i].wrapped
           /\ ch.resps[i].stores = 0

(* A GET with no-store while the storage holds a response for the key: the  *)
(* origin's response is returned, read and closed twice, and nothing was    *)
(* stored for it.                                                           *)
C24_Witness ==
  /\ Len(ch.log) = 2
  /\ ch.log[2].req = [method |-> "GET", cc |-> {"no-store"}]
  /\ ch.storage[<<"GET", "u">>].kind = "bytes"
  /\ ch.resps[2].status = 200 /\ ch.resps[2].maxage > 0
  /\ ch.resps[2].got = OriginBody
  /\ ch.resps[2].closes = 2
  /\ ch.stores = ch.log[2].stores

(* Response i as it was when call j of Do began.                            *)
Before(j, i) == ch.log[j].prior[i]

(* Response i was held when call j began and no Close of it had reached     *)
(* storage.Store.                                                           *)
NotStoredBefore(j, i) == Before(j, i).status = 0 \/ Before(j, i).stores = 0

(* C25: when a GET missed the cache and got a storable response whose body  *)
(* was read to the end and closed, a later GET of the same URL made while   *)
(* that response is fresh is answered from the store: the origin gets no    *)
(* request, the response has the stored status and body and carries         *)
(* X-From-Cache (the storage having failed in neither Store nor Load).      *)
C25_SecondGetFromStore ==
  \A j \in DoCalls : \A i \in 1..(j - 1) :
    (/\ ch.log[j].req.method = "GET" /\ "no-store" \notin ch.log[j].req.cc
     /\ ch.log[i].req.method = "GET"
     /\ ch.log[i].load = "miss"
     /\ Before(j, i).status \in StorableStatuses
     /\ Before(j, i).maxage > 0 /\ ~Before(j, i).nostore
     /\ Before(j, i).got = OriginBody
     /\ Before(j, i).closes >= 1
     /\ Before(j, i).storeRes # "failed"
     /\ \A k \in 1..(j - 1) : k # i => NotStoredBefore(j, k)
     /\ ch.log[j].load \notin {"error", "corrupt"}
     /\ (IF "max-age=0" \in ch.log[j].req.cc THEN 0 ELSE Before(j, i).maxage)
          > ch.log[j].now - Before(j, i).date) =>
      /\ ch.log[j].origin = 0
      /\ ch.log[j].err = "nil"
      /\ ch.resps[j].src = "stored"
      /\ ch.resps[j].status = Before(j, i).status
      /\ "X-From-Cache" \in ch.resps[j].extra
      /\ ch.resps[j].got \o ch.resps[j].rc = OriginBody

(* Two GETs, one request at the origin, and the second body read.           *)
C25_Witness ==
  /\ Len(ch.log) = 2
  /\ ch.log[1].load = "miss" /\ ch.log[2].load = "fresh"
  /\ ch.origin = 1
  /\ ch.resps[2].status = 200
  /\ "X-From-Cache" \in ch.resps[2].extra
  /\ ch.resps[2].got = OriginBody

RECURSIVE StoresOf(_)
(* The calls of storage.Store made by the first n responses.                *)
StoresOf(n) ==
  IF n = 0 THEN 0
  ELSE StoresOf(n - 1) + (IF Held(n) THEN ch.resps[n].stores ELSE 0)

(* C26: storage.Store is called only by a Close of a response body; for a   *)
(* storable response of a miss it is not called before the first Close and  *)
(* at most once however often Close is called; and while no body has been   *)
(* closed the storage holds nothing, so that the next request for the key   *)
(* is a miss again.                                                         *)
C26_StoreOnCloseOnce ==
  /\ ch.stores = StoresOf(Len(ch.resps))
  /\ \A i \in DoCalls :
       (Held(i) /\ ch.log[i].load = "miss" /\ ch.resps[i].wrapped) =>
         /\ ch.resps[i].stores <= 1
         /\ ch.resps[i].closes = 0 => ch.resps[i].stores = 0
         /\ (ch.resps[i].closes >= 1 /\ ch.resps[i].storeRes = "ok") =>
              ch.resps[i].stores = 1
  /\ \A j \in DoCalls :
       (/\ ch.log[j].req.method = "GET" /\ "no-store" \notin ch.log[j].req.cc
        /\ \A k \in 1..(j - 1) : Before(j, k).status = 0 \/ Before(j, k).closes = 0
        /\ ch.log[j].load \notin {"error", "corrupt"}) =>
         (ch.log[j].load = "miss" /\ ch.log[j].stores = 0 /\ ch.log[j].origin = 1)

(* A storable response of a miss, read, closed twice and stored once.       *)
C26_Witness ==
  /\ Len(ch.log) >= 1
  /\ ch.log[1].load = "miss"
  /\ ch.resps[1].status = 200 /\ ch.resps[1].wrapped
  /\ ch.resps[1].got = OriginBody
  /\ ch.resps[1].closes = 2
  /\ ch.resps[1].stores = 1
  /\ ch.storage[<<"GET", "u">>].kind = "bytes"

(* A storable response that is never closed, and the next GET a miss.       *)
C26_WitnessUnclosed ==
  /\ Len(ch.log) = 2
  /\ ch.log[1].load = "miss" /\ Held(1)
  /\ ch.resps[1].wrapped /\ ch.resps[1].closes = 0
  /\ ch.resps[1].got = OriginBody
  /\ ch.log[2].load = "miss"

(* The responses other than j have made no call of storage.Store since call *)
(* j of Do began.                                                           *)
NoOtherStoreSince(j) ==
  \A k \in DoCalls :
    k # j => IF k < j
             THEN Before(j, k).status = 0 \/ Before(j, k).stores = ch.resps[k].stores
             ELSE ~Held(k) \/ ch.resps[k].stores = 0

(* The answer of the origin to the validation request of call j was a 5xx.  *)
Validated5xx(j) ==
  /\ ch.log[j].load = "stale"
  /\ ch.log[j].a1.kind = "resp"
  /\ ch.log[j].a1.status >= 500 /\ ch.log[j].a1.status < 600

Validated304(j) ==
  /\ ch.log[j].load = "stale"
  /\ ch.log[j].a1.kind = "resp"
  /\ ch.log[j].a1.status = 304

(* C28: when the validation of a stale stored response gets a 304, Do       *)
(* returns the stored response with the origin's headers merged in, the     *)
(* hop-by-hop ones left out, and with the stored body still to be read in   *)
(* full by the caller; once the body is closed the storage holds the stored *)
(* status and body with the merged headers.                                 *)
C28_ValidationGets304 ==
  \A j \in DoCalls :
    Validated304(j) =>
      /\ ch.log[j].err = "nil" /\ ch.log[j].origin = 1
      /\ ch.resps[j].src = "stored"
      /\ ch.resps[j].status = ch.log[j].held.status
      /\ (ch.log[j].a1.extra \ HopByHop) \subseteq ch.resps[j].extra
      /\ ch.resps[j].extra \cap HopByHop = {}
      /\ ch.resps[j].date = ch.log[j].now
      /\ ~ch.resps[j].readErr
      /\ ch.resps[j].got \o ch.resps[j].rc = ch.log[j].held.body
      /\ (ch.resps[j].closes >= 1 /\ ch.resps[j].storeRes # "failed"
            /\ NoOtherStoreSince(j)) =>
           /\ ch.storage[keyof(ch.log[j].req)].kind = "bytes"
           /\ ch.storage[keyof(ch.log[j].req)].status = ch.log[j].held.status
           /\ ch.storage[keyof(ch.log[j].req)].body = ch.log[j].held.body
           /\ "X-Verified" \in ch.storage[keyof(ch.log[j].req)].extra
           /\ ch.storage[keyof(ch.log[j].req)].date = ch.log[j].now

(* After a 304 the caller's Read fails on the closed body, and the Close    *)
(* replaces the stored chunked response by one with an empty body.          *)
C28_Witness ==
  /\ Len(ch.log) = 2
  /\ Validated304(2)
  /\ ch.log[2].held.body = OriginBody
  /\ ch.resps[2].readErr /\ ch.resps[2].got = <<>>
  /\ ch.resps[2].closes = 1 /\ ch.resps[2].storeRes = "ok"
  /\ ch.storage[<<"GET", "u">>].body = <<>>
  /\ "X-Verified" \in ch.storage[<<"GET", "u">>].extra

(* After a 304 for a stored response with a Content-Length the Close fails  *)
(* in the dump and the storage keeps the entry without the merged headers.  *)
C28_WitnessNotRestored ==
  /\ Len(ch.log) = 2
  /\ Validated304(2)
  /\ ch.log[2].held.clen = Len(OriginBody)
  /\ ch.resps[2].closes = 1 /\ ch.resps[2].storeRes = "dump" /\ ch.resps[2].closeErr
  /\ ch.storage[<<"GET", "u">>] = ch.log[2].held

(* C29: a failure of the storage is not fatal to a request: when            *)
(* storage.Load returns an error, or bytes that are no response, Do sends   *)
(* the request to the client and returns the origin's response with a nil   *)
(* error; when storage.Store fails, the bytes the caller read from the      *)
(* response are those of the origin.                                        *)
C29_StorageFailureNotFatal ==
  \A j \in DoCalls :
    /\ ch.log[j].load \in {"error", "corrupt"} =>
         /\ ch.log[j].origin = 1
         /\ ch.log[j].err \in {"nil", "client"}
         /\ Held(j) => ch.resps[j].src = "origin"
    /\ (Held(j) /\ ch.resps[j].storeRes = "failed") =>
         ch.resps[j].got = ch.resps[j].buf

(* storage.Load fails for a GET: Do returns the error and the origin gets   *)
(* no request.                                                              *)
C29_Witness ==
  /\ Len(ch.log) = 1
  /\ ch.log[1].req = [method |-> "GET", cc |-> {}]
  /\ ch.log[1].load = "error"
  /\ ch.log[1].err = "load"
  /\ ch.log[1].origin = 0
  /\ ~Held(1)

(* ------------------------- claims on the disk store --------------------- *)

(* The values a Load of key k may return: the complete value of an earlier  *)
(* run and the complete values of the Store calls whose rename has happened. *)
CompleteValues(k) ==
  Renamed(k) \cup (IF ds.inode[OldInode].data = OldValue THEN {OldValue} ELSE {})

(* A step in which a Store that has not renamed returns its error.          *)
StoreFailsBeforeRename(p) ==
  /\ ds.st[p].pc # "failed"
  /\ ds'.st[p].pc = "failed"
  /\ ~ds.st[p].renamed

(* C30: the key's filename only ever names a file that was written in full  *)
(* and fsynced before it was renamed, and the index holds a key only when   *)
(* that file exists; so a Load, also one that runs while a Store of the key *)
(* is under way, returns not-found or the complete bytes of an earlier or   *)
(* of that Store, never a partial or a temporary file; and a Store that     *)
(* fails before its rename changes neither the index nor the key's file.    *)
C30_StoreVisibleAfterRename ==
  /\ [](\A k \in DiskKeys :
          /\ ds.keyfile[k] # NoInode =>
               /\ ds.inode[ds.keyfile[k]].synced
               /\ ds.inode[ds.keyfile[k]].data \in CompleteValues(k)
          /\ ds.ready[k].present => ds.keyfile[k] # NoInode
          /\ (ds.ld.pc = "returned" /\ ds.ld.key = k) =>
               /\ ds.ld.res.kind \in {"notfound", "bytes"}
               /\ ds.ld.res.kind = "bytes" => ds.ld.res.data \in CompleteValues(k))
  /\ [][\A p \in Writers :
          StoreFailsBeforeRename(p) =>
            /\ ds'.ready = ds.ready
            /\ ds'.keyfile = ds.keyfile
            /\ \A k \in DiskKeys :
                 ds.keyfile[k] # NoInode =>
                   ds'.inode[ds.keyfile[k]] = ds.inode[ds.keyfile[k]]]_vars

(* A Load that returned the bytes of a Store which has renamed its file but *)
(* not yet returned, the key being in the index from the earlier run.       *)
C30_Witness ==
  /\ ds.st[1].pc \in {"renamed", "dirsynced"}
  /\ ds.st[2].pc = "failed" /\ ~ds.st[2].renamed
  /\ ds.ld.pc = "returned"
  /\ ds.ld.res = [kind |-> "bytes", data |-> DiskValue(1)]

(* ------------------------- DedupeBF (dedupe.go) ------------------------ *)

(* The URL strings handed to the deduper and the k bit locations of each    *)
(* string in a filter of m = 4 bits: "c" hashes onto bits that "a" and "b"  *)
(* set between them, a false positive.                                      *)
BFCallers == {1, 2}
MaxBFBatch == 2
BFStrings == {"a", "b", "c"}

locations(v) ==
  CASE v = "a" -> <<0, 1>>
    [] v = "b" -> <<2, 3>>
    [] OTHER   -> <<1, 2>>

(* bloom.BloomFilter.Test: every location of v is set.                      *)
filterTest(bits, v) == \A i \in 1..Len(locations(v)) : locations(v)[i] \in bits

BFBatches == UNION {[1..n -> BFStrings] : n \in 1..MaxBFBatch}

BFInit ==
  /\ cfg = [workers |-> 1, concurrency |-> 0, impolite |-> TRUE,
            limiter |-> FALSE, matcher |-> FALSE]
  /\ seeds = <<>>
  /\ EngineIdle
  /\ ft = FIdle
  /\ bk = BIdle
  /\ ch = CIdle
  /\ ds = DIdle
  /\ rb = RBIdle
  /\ nz = NZIdle
  /\ cq = CQIdle
  /\ sw = SWIdle
  /\ \E b1 \in BFBatches, b2 \in BFBatches :
       bf = [pc |-> "run",
             filter |-> {},
             call |-> [p \in BFCallers |->
                        [urls |-> IF p = 1 THEN b1 ELSE b2, i |-> 1, pc |-> "test",
                         todo |-> <<>>, word |-> {}, ret |-> <<>>]]]

bloomFrame == <<cfg, seeds, queueVars, seen, semaCur, rootCancelled, runVars,
                runErr, wpc, wurl, wErr, tasks, histVars, qh, ft, bk, ch, ds, rb, nz, cq, sw>>

(* The position of a call after it is done with urls[i].                    *)
bfAdvance(c) ==
  [c EXCEPT !.i = c.i + 1,
            !.pc = IF c.i + 1 > Len(c.urls) THEN "done" ELSE "test"]

(* for _, u := range urls { if !d.filter.Test(v) {                          *)
BFTest(p) ==
  LET c == bf.call[p] IN
  /\ bf.pc = "run"
  /\ c.pc = "test"
  /\ bf' = [bf EXCEPT !.call[p] =
              IF filterTest(bf.filter, c.urls[c.i])
                THEN bfAdvance(c)
                ELSE [c EXCEPT !.pc = "read", !.todo = locations(c.urls[c.i])]]
  /\ UNCHANGED bloomFrame

(* d.filter.Add(v), one location at a time: the bit set's word is read ...  *)
BFAddRead(p) ==
  LET c == bf.call[p] IN
  /\ bf.pc = "run"
  /\ c.pc = "read"
  /\ bf' = [bf EXCEPT !.call[p] = [c EXCEPT !.pc = "write", !.word = bf.filter]]
  /\ UNCHANGED bloomFrame

(* ... and written back with the bit set; after the last location,          *)
(* ret = append(ret, u).                                                    *)
BFAddWrite(p) ==
  LET c == bf.call[p]
      rest == Tail(c.todo) IN
  /\ bf.pc = "run"
  /\ c.pc = "write"
  /\ bf' = [bf EXCEPT
              !.filter = c.word \cup {Head(c.todo)},
              !.call[p] =
                IF rest = <<>>
                  THEN [bfAdvance(c) EXCEPT !.todo = <<>>,
                                            !.ret = Append(c.ret, c.urls[c.i])]
                  ELSE [c EXCEPT !.pc = "read", !.todo = rest]]
  /\ UNCHANGED bloomFrame

BFNext == \E p \in BFCallers : BFTest(p) \/ BFAddRead(p) \/ BFAddWrite(p)

BFSpec == BFInit /\ [][BFNext]_vars

(* ------------------------ claims on DedupeBF --------------------------- *)

(* The URL strings a Dedupe call has returned as new.                       *)
ReturnedNew(p) == {bf.call[p].ret[i] : i \in 1..Len(bf.call[p].ret)}

(* C31: of two Dedupe calls running concurrently on one bloom-filter        *)
(* deduper, at most one returns a given URL string as new.                  *)
C31_AtMostOneReturnsNew ==
  bf.pc = "run" => ReturnedNew(1) \cap ReturnedNew(2) = {}

(* Both calls were handed "a" and both have returned.                       *)
C31_Witness ==
  /\ bf.pc = "run"
  /\ bf.call[1].pc = "done" /\ bf.call[2].pc = "done"
  /\ bf.call[1].urls = <<"a">> /\ bf.call[2].urls = <<"a">>

(* -------------------- robots.Cache (unnamed/part_019) ------------------ *)

MaxRobotsCalls == 3
RobotsHosts == {"h1", "h2"}

(* What the client returns for GET <scheme>://<host>/robots.txt: a status   *)
(* with a body that parses to rules or does not parse, or no response.      *)
RobotsData == [allow : BOOLEAN, delay : {0, 1}]
RobotsAnswers ==
  {[kind |-> "status", status |-> 200, parses |-> TRUE, data |-> d] : d \in RobotsData}
    \cup {[kind |-> "status", status |-> 200, parses |-> FALSE,
           data |-> [allow |-> TRUE, delay |-> 0]]}
    \cup {[kind |-> "status", status |-> s, parses |-> TRUE,
           data |-> [allow |-> TRUE, delay |-> 0]] : s \in {404, 500}}
    \cup {[kind |-> "neterror", status |-> 0, parses |-> TRUE,
           data |-> [allow |-> TRUE, delay |-> 0]]}

(* The entries of the LRU: none, &Host{} and &Host{data: data}.             *)
NoHost == [kind |-> "none", data |-> [allow |-> TRUE, delay |-> 0]]
EmptyHost == [kind |-> "host", data |-> [allow |-> TRUE, delay |-> 0]]
DataHost(d) == [kind |-> "data", data |-> d]

(* Cache.lookup: the host, the error and the entry the LRU ends with.       *)
robotsLookup(entry, a) ==
  IF entry.kind # "none"
    THEN [host |-> entry, err |-> "nil", set |-> entry, asked |-> FALSE]
  ELSE IF a.kind = "neterror"
    THEN [host |-> NoHost, err |-> "get", set |-> entry, asked |-> TRUE]
  ELSE IF a.status >= 400
    THEN [host |-> EmptyHost, err |-> "nil", set |-> EmptyHost, asked |-> TRUE]
  ELSE IF ~a.parses
    THEN [host |-> NoHost, err |-> "parse", set |-> entry, asked |-> TRUE]
  ELSE [host |-> DataHost(a.data), err |-> "nil", set |-> DataHost(a.data),
        asked |-> TRUE]

(* Host.test and Host.find's crawl delay.                                   *)
hostTest(h) == IF h.kind = "data" THEN h.data.allow ELSE TRUE
hostDelay(h) == IF h.kind = "data" THEN h.data.delay ELSE 0

RBInit ==
  /\ cfg = [workers |-> 1, concurrency |-> 0, impolite |-> FALSE,
            limiter |-> FALSE, matcher |-> FALSE]
  /\ seeds = <<>>
  /\ EngineIdle
  /\ ft = FIdle
  /\ bk = BIdle
  /\ ch = CIdle
  /\ ds = DIdle
  /\ bf = BFIdle
  /\ nz = NZIdle
  /\ cq = CQIdle
  /\ sw = SWIdle
  /\ rb = [pc |-> "run", lru |-> [h \in RobotsHosts |-> NoHost], log |-> <<>>]

robotsFrame == <<cfg, seeds, queueVars, seen, semaCur, rootCancelled, runVars,
                 runErr, wpc, wurl, wErr, tasks, histVars, qh, ft, bk, ch, ds, bf, nz, cq, sw>>

(* Cache.Allowed with a live context, and what Engine.process does with its *)
(* result: return the error, return nil without a visit, or go on.          *)
RAllowed(h, a) ==
  LET l == robotsLookup(rb.lru[h], a)
      allowed == IF l.err # "nil" THEN FALSE ELSE hostTest(l.host) IN
  /\ rb.pc = "run"
  /\ Len(rb.log) < MaxRobotsCalls
  /\ rb' = [rb EXCEPT
              !.lru[h] = l.set,
              !.log = Append(@, [fn |-> "Allowed", host |-> h, answer |-> a,
                                 asked |-> l.asked, allowed |-> allowed,
                                 err |-> l.err, slept |-> 0,
                                 process |-> IF l.err # "nil" THEN "error"
                                             ELSE IF ~allowed THEN "skipped"
                                             ELSE "continues"])]
  /\ UNCHANGED robotsFrame

(* Cache.Wait with a live context.                                          *)
RWait(h, a) ==
  LET l == robotsLookup(rb.lru[h], a) IN
  /\ rb.pc = "run"
  /\ Len(rb.log) < MaxRobotsCalls
  /\ rb' = [rb EXCEPT
              !.lru[h] = l.set,
              !.log = Append(@, [fn |-> "Wait", host |-> h, answer |-> a,
                                 asked |-> l.asked, allowed |-> FALSE,
                                 err |-> l.err,
                                 slept |-> IF l.err # "nil" THEN 0 ELSE hostDelay(l.host),
                                 process |-> IF l.err # "nil" THEN "error"
                                             ELSE "continues"])]
  /\ UNCHANGED robotsFrame

RBNext == \E h \in RobotsHosts, a \in RobotsAnswers : RAllowed(h, a) \/ RWait(h, a)

RBSpec == RBInit /\ [][RBNext]_vars

(* ----------------------- claims on robots.Cache ------------------------ *)

(* The call asked the host for robots.txt and the request failed at the     *)
(* network level.                                                           *)
NetworkFailure(e) == e.asked /\ e.answer.kind = "neterror"

(* C32: a call whose robots.txt request fails at the network level returns  *)
(* no error, Allowed returns true and Wait does not sleep, the host is left *)
(* with a permissive record and Engine.process goes on with the URL.        *)
C32_NetworkFailureIsPermissive ==
  rb.pc = "run" =>
    \A i \in 1..Len(rb.log) :
      NetworkFailure(rb.log[i]) =>
        /\ rb.log[i].err = "nil"
        /\ rb.log[i].fn = "Allowed" => rb.log[i].allowed
        /\ rb.log[i].slept = 0
        /\ rb.log[i].process = "continues"
        /\ i = Len(rb.log) => rb.lru[rb.log[i].host] = EmptyHost

(* Allowed was called for a host whose robots.txt request failed at the     *)
(* network level.                                                           *)
C32_Witness ==
  /\ rb.pc = "run"
  /\ \E i \in 1..Len(rb.log) : NetworkFailure(rb.log[i]) /\ rb.log[i].fn = "Allowed"

(* -------------------- normalize.URL on its own ------------------------- *)

(* The URLs handed to normalize: schemes and hosts in both cases, default   *)
(* and custom ports, and absolute paths of empty, dot and plain segments.   *)
MaxNormSegs == 2
NormSchemes == {"http", "HTTP", "https"}
NormHosts == {<<"a", "">>, <<"A", "80">>, <<"a", "443">>, <<"a", "8080">>}
NormSegs == {"", ".", "..", "x"}
NormPaths ==
  {<<"">>} \cup {<<"">> \o t : t \in UNION {[1..n -> NormSegs] : n \in 1..MaxNormSegs}}
NormInputs ==
  {MkURL(s, h, p, f) : s \in NormSchemes, h \in NormHosts, p \in NormPaths,
                       f \in {"", "f"}}

(* url.Parse of a string that url.URL.String printed.                       *)
parseString(t) == MkURL(t[1], t[2], t[3], t[4])

NInit ==
  /\ cfg = [workers |-> 1, concurrency |-> 0, impolite |-> TRUE,
            limiter |-> FALSE, matcher |-> FALSE]
  /\ seeds = <<>>
  /\ EngineIdle
  /\ ft = FIdle
  /\ bk = BIdle
  /\ ch = CIdle
  /\ ds = DIdle
  /\ bf = BFIdle
  /\ rb = RBIdle
  /\ cq = CQIdle
  /\ sw = SWIdle
  /\ \E u \in NormInputs :
       nz = [pc |-> "start", u |-> u, n1 |-> NoURL, n2 |-> NoURL, via |-> "none"]

normalizeFrame == <<cfg, seeds, queueVars, seen, semaCur, rootCancelled, runVars,
                    runErr, wpc, wurl, wErr, tasks, histVars, qh, ft, bk, ch, ds, bf, rb, cq, sw>>

(* normalize.URL(u).                                                        *)
NFirst ==
  /\ nz.pc = "start"
  /\ nz' = [nz EXCEPT !.pc = "once", !.n1 = NormalizeURL(nz.u)]
  /\ UNCHANGED normalizeFrame

(* normalize.URL on the URL it returned.                                    *)
NAgainURL ==
  /\ nz.pc = "once"
  /\ nz' = [nz EXCEPT !.pc = "twice", !.n2 = NormalizeURL(nz.n1), !.via = "url"]
  /\ UNCHANGED normalizeFrame

(* normalize.RawURL on the string of the URL it returned.                   *)
NAgainRaw ==
  /\ nz.pc = "once"
  /\ nz' = [nz EXCEPT !.pc = "twice",
                      !.n2 = NormalizeURL(parseString(String(nz.n1))),
                      !.via = "raw"]
  /\ UNCHANGED normalizeFrame

NNext == NFirst \/ NAgainURL \/ NAgainRaw

NSpec == NInit /\ [][NNext]_vars

(* ------------------------ claims on normalize -------------------------- *)

(* C33: normalizing the result of a normalization again yields the same    *)
(* URL string.                                                              *)
C33_NormalizeIdempotent ==
  nz.pc = "twice" => String(nz.n2) = String(nz.n1)

(* A URL with a port, an upper-case host, a dot segment and a fragment was  *)
(* normalized twice.                                                        *)
C33_Witness ==
  /\ nz.pc = "twice"
  /\ nz.u = MkURL("HTTP", <<"A", "80">>, <<"", ".", "x">>, "f")
  /\ nz.via = "raw"

(* --------------- the strategies' cache method on its own --------------- *)

(* Requests as the tests of rfc7234.cache build them: a method, the         *)
(* directives of Cache-Control and the other headers present.               *)
CQMethods == {"GET", "HEAD", "POST", "PUT"}
CQHeaders == {"Authorization", "Range", "Content-Range", "Accept"}
CQRequests ==
  [method : CQMethods, cc : {{}, {"no-store"}, {"max-age=0"}},
   headers : SUBSET CQHeaders]

(* aggressive.cache                                                         *)
aggressiveCache(req) == rfcCache(req)

CQInit ==
  /\ cfg = [workers |-> 1, concurrency |-> 0, impolite |-> TRUE,
            limiter |-> FALSE, matcher |-> FALSE]
  /\ seeds = <<>>
  /\ EngineIdle
  /\ ft = FIdle
  /\ bk = BIdle
  /\ ch = CIdle
  /\ ds = DIdle
  /\ bf = BFIdle
  /\ rb = RBIdle
  /\ nz = NZIdle
  /\ sw = SWIdle
  /\ \E r \in CQRequests :
       cq = [pc |-> "start", req |-> r, strategy |-> "none", cacheable |-> FALSE]

cacheableFrame == <<cfg, seeds, queueVars, seen, semaCur, rootCancelled, runVars,
                    runErr, wpc, wurl, wErr, tasks, histVars, qh, ft, bk, ch, ds, bf, rb, nz, sw>>

(* strategy.cache(req) of the RFC 7234 strategy.                            *)
CQRFC7234 ==
  /\ cq.pc = "start"
  /\ cq' = [cq EXCEPT !.pc = "done", !.strategy = "rfc7234",
                      !.cacheable = rfcCache(cq.req)]
  /\ UNCHANGED cacheableFrame

(* strategy.cache(req) of the aggressive strategy.                          *)
CQAggressive ==
  /\ cq.pc = "start"
  /\ cq' = [cq EXCEPT !.pc = "done", !.strategy = "aggressive",
                      !.cacheable = aggressiveCache(cq.req)]
  /\ UNCHANGED cacheableFrame

CQNext == CQRFC7234 \/ CQAggressive

CQSpec == CQInit /\ [][CQNext]_vars

(* ------------------ claims on the cache method ------------------------- *)

(* C34: both strategies report a request as cacheable exactly when its     *)
(* method is GET or HEAD, it has no no-store directive and it carries no   *)
(* Authorization, Range or Content-Range header.                           *)
C34_CacheableRequests ==
  cq.pc = "done" =>
    (cq.cacheable <=>
       /\ cq.req.method \in {"GET", "HEAD"}
       /\ "no-store" \notin cq.req.cc
       /\ cq.req.headers \cap {"Authorization", "Range", "Content-Range"} = {})

(* The RFC 7234 strategy was asked about a GET with an Authorization        *)
(* header.                                                                  *)
C34_Witness ==
  /\ cq.pc = "done"
  /\ cq.strategy = "rfc7234"
  /\ cq.req = [method |-> "GET", cc |-> {}, headers |-> {"Authorization"}]

(* ------------------ claims on antcache, validation --------------------- *)

(* The answer of the origin to the validation request of call j was a       *)
(* response that is neither a 5xx nor a 304 and that the strategy does not  *)
(* store.                                                                   *)
ValidatedUnstorable(j) ==
  /\ ch.log[j].load = "stale"
  /\ ch.log[j].a1.kind = "resp"
  /\ ~(ch.log[j].a1.status >= 500 /\ ch.log[j].a1.status < 600)
  /\ ch.log[j].a1.status # 304
  /\ ~(/\ ch.log[j].a1.status \in StorableStatuses
       /\ ~ch.log[j].a1.nostore
       /\ ch.log[j].a1.maxage > 0)

(* C35: when the validation of a stale stored response gets a response that *)
(* is neither 5xx nor 304 and is not storable, Do returns that response     *)
(* with a nil error after that one request to the origin, the response      *)
(* never reaches storage.Store and the stored entry stays as it was.        *)
C35_ValidationGetsUnstorable ==
  \A j \in DoCalls :
    ValidatedUnstorable(j) =>
      /\ ch.log[j].err = "nil" /\ ch.log[j].origin = 1
      /\ ch.resps[j].src = "origin"
      /\ ch.resps[j].status = ch.log[j].a1.status
      /\ ~ch.resps[j].wrapped /\ ch.resps[j].stores = 0
      /\ NoOtherStoreSince(j) => ch.storage[keyof(ch.log[j].req)] = ch.log[j].held

(* A response stored at time 0 is validated at time 1 and the origin        *)
(* answers 200 with no-store.                                               *)
C35_Witness ==
  /\ Len(ch.log) = 2
  /\ ValidatedUnstorable(2)
  /\ ch.log[2].now = 1
  /\ ch.log[2].held.kind = "bytes"
  /\ ch.log[2].a1.status = 200 /\ ch.log[2].a1.nostore

(* C36: a response returned by Do carries X-From-Cache exactly when its     *)
(* status, headers and body are those of the store: a response of the       *)
(* origin, on a miss or as the outcome of a validation, does not carry it.  *)
C36_FromCacheHeader ==
  \A j \in DoCalls :
    Held(j) => ("X-From-Cache" \in ch.resps[j].extra <=> ch.resps[j].src = "stored")

(* A validation without stale-if-error got a 500 and Do returned the        *)
(* origin's response.                                                       *)
C36_Witness ==
  /\ Len(ch.log) = 2
  /\ Validated5xx(2)
  /\ "stale-if-error" \notin ch.log[2].req.cc
  /\ Held(2) /\ ch.resps[2].src = "origin" /\ ch.resps[2].status = 500

(* ------------------- Diskstore.sweep on its own (disk.go) -------------- *)

(* The index handed to sweep: per key no file or a file with its mtime and  *)
(* size; the clock reads SweepNow.                                          *)
MaxSweepFiles == 3
MaxMtime == 2
MaxFileSize == 2
SweepNow == 2
SweepKeys == 1..MaxSweepFiles
NoFile == [mtime |-> -1, size |-> 0]
SweepIndexes ==
  [SweepKeys -> {NoFile} \cup [mtime : 0..MaxMtime, size : 1..MaxFileSize]]
SweepMaxages == {0, 1}
SweepMaxsizes == {0, 2, 3}

(* Diskstore.files: the files of the index.                                 *)
sweepFiles(ready) ==
  {[key |-> k, mtime |-> ready[k].mtime, size |-> ready[k].size] :
     k \in {x \in SweepKeys : ready[x] # NoFile}}

(* sort.Slice by mtime on the files in map order: any order of the files    *)
(* in which no file comes before an older one.                              *)
sweepOrders(files) ==
  {o \in [1..Cardinality(files) -> files] :
     /\ \A i, j \in DOMAIN o : i # j => o[i] # o[j]
     /\ \A i, j \in DOMAIN o : i < j => o[i].mtime <= o[j].mtime}

(* The loop over the sorted files: a file older than maxage is marked, and  *)
(* a file that takes the running sum over maxsize is marked and taken off   *)
(* the sum again.                                                           *)
RECURSIVE sweepScan(_, _, _, _, _)
sweepScan(c, order, i, sum, remove) ==
  IF i > Len(order) THEN remove
  ELSE LET f == order[i]
           aged == c.maxage > 0 /\ c.now - f.mtime > c.maxage
           over == c.maxsize > 0 /\ sum + f.size > c.maxsize
           r1 == IF aged THEN Append(remove, [file |-> f, why |-> "age"]) ELSE remove
           r2 == IF over THEN Append(r1, [file |-> f, why |-> "size"]) ELSE r1
       IN sweepScan(c, order, i + 1,
                    IF c.maxsize > 0 /\ ~over THEN sum + f.size ELSE sum, r2)

(* The loop over the marked files under the write lock: a file still in the *)
(* index is removed from the directory and the index and counted, unless    *)
(* os.Remove fails.                                                         *)
RECURSIVE sweepDelete(_, _, _, _, _)
sweepDelete(remove, i, ready, deleted, unremovable) ==
  IF i > Len(remove) THEN [ready |-> ready, deleted |-> deleted]
  ELSE LET e == remove[i]
           k == e.file.key IN
       IF ready[k] # NoFile /\ k \notin unremovable
       THEN sweepDelete(remove, i + 1, [ready EXCEPT ![k] = NoFile],
                        Append(deleted, e), unremovable)
       ELSE sweepDelete(remove, i + 1, ready, deleted, unremovable)

SWInit ==
  /\ cfg = [workers |-> 1, concurrency |-> 0, impolite |-> TRUE,
            limiter |-> FALSE, matcher |-> FALSE]
  /\ seeds = <<>>
  /\ EngineIdle
  /\ ft = FIdle
  /\ bk = BIdle
  /\ ch = CIdle
  /\ ds = DIdle
  /\ bf = BFIdle
  /\ rb = RBIdle
  /\ nz = NZIdle
  /\ cq = CQIdle
  /\ \E r \in SweepIndexes, a \in SweepMaxages, s \in SweepMaxsizes :
       sw = [pc |-> "ready", maxage |-> a, maxsize |-> s, now |-> SweepNow,
             before |-> r, ready |-> r, deleted |-> <<>>, removed |-> 0,
             failed |-> {}]

sweepFrame == <<cfg, seeds, queueVars, seen, semaCur, rootCancelled, runVars,
                runErr, wpc, wurl, wErr, tasks, histVars, qh, ft, bk, ch, ds, bf, rb, nz, cq>>

(* One call of sweep; os.Remove fails for the files of unremovable.         *)
SweepRun(order, unremovable) ==
  /\ sw.pc = "ready"
  /\ LET remove == sweepScan(sw, order, 1, 0, <<>>)
         out == sweepDelete(remove, 1, sw.ready, <<>>, unremovable)
     IN
       /\ unremovable \subseteq {remove[i].file.key : i \in 1..Len(remove)}
       /\ sw' = [sw EXCEPT !.pc = "swept", !.ready = out.ready,
                           !.deleted = out.deleted,
                           !.removed = Len(out.deleted),
                           !.failed = unremovable]
  /\ UNCHANGED sweepFrame

SWNext ==
  \E order \in sweepOrders(sweepFiles(sw.ready)),
     u \in {{}} \cup {{k} : k \in SweepKeys} :
    SweepRun(order, u)

SWSpec == SWInit /\ [][SWNext]_vars

(* ----------------------- claims on sweep ------------------------------- *)

RECURSIVE SumSizes(_)
SumSizes(files) ==
  IF files = {} THEN 0
  ELSE LET f == CHOOSE x \in files : TRUE IN f.size + SumSizes(files \ {f})

(* sweep has run with every os.Remove succeeding.                           *)
Swept == sw.pc = "swept" /\ sw.failed = {}

Expired(f) == sw.maxage > 0 /\ sw.now - f.mtime > sw.maxage

(* C37: with maxsize set, after sweep the total size of the indexed files   *)
(* is at most maxsize, and no file removed for its size is newer than a     *)
(* file that was kept.                                                      *)
C37_SweepMaxsizeOldestFirst ==
  (Swept /\ sw.maxsize > 0) =>
    /\ SumSizes(sweepFiles(sw.ready)) <= sw.maxsize
    /\ \A i \in 1..Len(sw.deleted) :
         sw.deleted[i].why = "size" =>
           \A k \in sweepFiles(sw.ready) : ~(sw.deleted[i].file.mtime > k.mtime)

(* Three files of size 1 with distinct mtimes and a maxsize of 2, no        *)
(* maxage: one file was removed for its size.                               *)
C37_Witness ==
  /\ Swept
  /\ sw.maxage = 0 /\ sw.maxsize = 2
  /\ sw.before = [k \in SweepKeys |-> [mtime |-> k - 1, size |-> 1]]
  /\ sw.removed = 1

(* C38: with maxage and maxsize set, sweep removes no file whose age is     *)
(* within maxage when the files within maxage together are at most maxsize  *)
(* and the count it returns is the number of files removed.                 *)
C38_ExpiredNotInSizeBudget ==
  (Swept /\ sw.maxage > 0 /\ sw.maxsize > 0) =>
    LET live == {f \in sweepFiles(sw.before) : ~Expired(f)} IN
      /\ SumSizes(live) <= sw.maxsize => live \subseteq sweepFiles(sw.ready)
      /\ sw.removed = Cardinality(sweepFiles(sw.before) \ sweepFiles(sw.ready))

(* An expired file of size 2 and a file within maxage of size 1, with a     *)
(* maxsize of 2.                                                            *)
C38_Witness ==
  /\ Swept
  /\ sw.maxage = 1 /\ sw.maxsize = 2
  /\ sw.before = [k \in SweepKeys |->
                    IF k = 1 THEN [mtime |-> 0, size |-> 2]
                    ELSE IF k = 2 THEN [mtime |-> 2, size |-> 1]
                    ELSE NoFile]

(* --------------- the disk store with its sweeper (disk.go) ------------- *)

(* Open with the default ticker: the sweeper goroutine is started too.      *)
DSInit ==
  /\ cfg = [workers |-> 1, concurrency |-> 0, impolite |-> TRUE,
            limiter |-> FALSE, matcher |-> FALSE]
  /\ seeds = <<>>
  /\ EngineIdle
  /\ ft = FIdle
  /\ bk = BIdle
  /\ ch = CIdle
  /\ ds \in {[DStart(old) EXCEPT !.sp.pc = "idle"] : old \in BOOLEAN}
  /\ bf = BFIdle
  /\ rb = RBIdle
  /\ nz = NZIdle
  /\ cq = CQIdle
  /\ sw = SWIdle

(* sweep: d.files() copies the index under the read lock and the loop marks *)
(* the files that are too old or too many; which ones depends on their      *)
(* mtimes and sizes, so any part of the copy may be marked.                 *)
PSnapshot(remove) ==
  /\ ds.sp.pc = "idle"
  /\ remove \subseteq {k \in DiskKeys : ds.ready[k].present}
  /\ ds' = [ds EXCEPT
              !.sp = [@ EXCEPT !.pc = "marked", !.remove = remove,
                               !.doneAt = {p \in Writers : ds.st[p].pc = "done"}]]
  /\ UNCHANGED diskFrame

(* sweep: under the write lock every marked key that is still in the index  *)
(* has the file of its name removed and leaves the index; a failing         *)
(* os.Remove leaves the entry.                                              *)
PRemove ==
  /\ ds.sp.pc = "marked"
  /\ ~ReadLocked
  /\ LET gone == {k \in ds.sp.remove : ds.ready[k].present /\ ds.keyfile[k] # NoInode}
         lost == {ds.keyfile[k] : k \in gone} IN
       ds' = [ds EXCEPT
                !.keyfile = [k \in DiskKeys |-> IF k \in gone THEN NoInode ELSE @[k]],
                !.ready = [k \in DiskKeys |-> IF k \in gone THEN NotReady ELSE @[k]],
                !.sp = [@ EXCEPT
                          !.pc = "done",
                          !.deleted = IF gone = {} THEN NoInode
                                      ELSE CHOOSE i \in lost : TRUE,
                          !.lostDone = \E i \in lost :
                                          /\ i \in Writers
                                          /\ ds.st[i].pc = "done"
                                          /\ i \notin ds.sp.doneAt]]
  /\ UNCHANGED diskFrame

DSNext ==
  \/ DNext
  \/ \E r \in SUBSET DiskKeys : PSnapshot(r)
  \/ PRemove

DSSpec == DSInit /\ [][DSNext]_vars

(* --------------- claims on the disk store with its sweeper ------------- *)

(* C39: under every interleaving of Store, Load, the sweeper and warmup,    *)
(* each key in the index has its file in the directory, no Load of an       *)
(* indexed key fails because the file is missing, and a sweep does not      *)
(* delete the value of a Store that completed after the sweep copied the    *)
(* index.                                                                   *)
C39_IndexedKeysHaveFiles ==
  ds.pc = "open" =>
    /\ \A k \in DiskKeys : ds.ready[k].present => ds.keyfile[k] # NoInode
    /\ ds.ld.res.kind # "error"
    /\ ~ds.sp.lostDone

(* A sweep that had marked the key removed its file after a Store of the    *)
(* key renamed its own file to that name.                                   *)
C39_Witness ==
  /\ ds.pc = "open"
  /\ ds.sp.pc = "done"
  /\ ds.sp.deleted \in Writers

(* ------------------- claims on the enqueue pipeline -------------------- *)

(* The URL strings of a batch.                                              *)
StringsOf(urls) == {String(urls[i]) : i \in 1..Len(urls)}

(* The URL strings that are on the queue, on their way to it in a deduped   *)
(* batch, in a worker's hands or already handed to a task.                  *)
OnItsWay ==
  StringsOf(pending) \cup StringsOf(runNext)
    \cup UNION {StringsOf(tasks[t].next) : t \in 1..MaxTasks}
    \cup {String(wurl[w]) : w \in 1..MaxWorkers}
    \cup {s \in NormStrings : visits[s] > 0}

(* C40: every URL string the enqueue pipeline has recorded in the deduper   *)
(* is put on the queue: once the batch it came in has been handed to        *)
(* queue.Enqueue, the string is on the queue or has been taken from it.     *)
C40_SeenIsEnqueued == seen \subseteq OnItsWay

(* The queue's Enqueue refused the seeds after the deduper recorded them.   *)
C40_Witness ==
  /\ runPC = "returned"
  /\ runResult = "canceled"
  /\ seen # {}
  /\ pending = <<>>

====
